---- MODULE Spec2Model ----
(***************************************************************************)
(* TF-K8s scenario runner (tf-k8s/scripts/scenario-runner.py).             *)
(*                                                                         *)
(* The driver main() walks the resolved scenario files one after another:  *)
(* setup_scenario (load the definition, create the namespace, apply the    *)
(* manifests), run_scenario (steps, commands, success criteria),           *)
(* save_results, cleanup_scenario.  Every external call (kubectl, a step   *)
(* command, the file system) either succeeds or fails, chosen by the       *)
(* environment.  Python dicts are records whose DOMAIN is the set of keys  *)
(* that are present, so that dict.get(key, default) is Get below.          *)
(***************************************************************************)
EXTENDS Integers, Sequences, FiniteSets, TLC

VARIABLES
    args,            \* main: the parsed --group and --scenario arguments
    fs,              \* the scenario directories that hold a scenario_definition.yaml
    printed,         \* the lines find_scenarios printed
    scenario_files,  \* main: the list returned by find_scenarios
    idx,             \* main: position of the for loop in scenario_files
    pc,              \* the statement the process is at
    success,         \* main: the accumulated success flag
    exit_code,       \* the process's exit code, NoExit while running
    scenario,        \* the loaded scenario definition
    namespace,       \* the namespace name derived by setup_scenario
    manifest_files,  \* setup_scenario: the globbed manifests still to apply
    apply_log,       \* history: the kubectl apply calls of this setup, in order
    results,         \* run_scenario: the results dict
    i,               \* run_scenario: index of the current step
    c,               \* run_scenario: index of the current command
    step_success,    \* run_scenario: the current step's flag
    step_output,     \* run_scenario: the current step's output chunks
    k,               \* run_scenario: index of the current criterion
    cluster,         \* the namespaces that exist in the cluster
    reports,         \* the report directory: path -> saved results
    now,             \* the wall clock, in seconds
    created,         \* history: <<file, namespace>> of the create calls that succeeded
    delete_calls,    \* history: <<file, namespace>> of the delete calls issued
    attempted,       \* history: scenario files whose setup was started
    caught,          \* history: scenario files whose exception main caught
    returned,        \* history: scenario file -> success flag run_scenario returned
    cmd_log,         \* history: the commands run_scenario executed, in order
    ran,             \* history: scenario files a step command was executed for
    raised_at,       \* history: scenario file -> statement whose exception main caught
    save_log,        \* history: the save_results calls, in order
    loaded,          \* history: scenario file -> identifier of the definition loaded
    errors,          \* TestValidator: self.errors
    valid,           \* TestValidator: what validate_scenario_definition returned
    dir,             \* TestValidator: the scenario directory on disk
    warnings,        \* TestValidator: self.warnings
    all_passed,      \* TestValidator.validate: the accumulated flag
    checked          \* history: the checks validate has run, with what each returned

vars == <<args, fs, printed, scenario_files, idx, pc, success, exit_code,
          scenario, namespace, manifest_files, apply_log, results, i, c,
          step_success, step_output, k, cluster, reports, now, created,
          delete_calls, attempted, caught, returned, cmd_log, ran, raised_at,
          save_log, loaded, errors, valid, dir, warnings, all_passed, checked>>

-----------------------------------------------------------------------------
(* Bounds of the model *)

MaxScenarios == 2
MaxManifests == 2
MaxSteps == 2
MaxCmds == 2
MaxCriteria == 2
MaxTime == 1

-----------------------------------------------------------------------------
(* Python helpers *)

\* dict.get(key, default)
Get(d, key, default) == IF key \in DOMAIN d THEN d[key] ELSE default

SeqsUpTo(S, n) == UNION {[1..len -> S] : len \in 0..n}

\* a local variable that is not bound yet
Unbound == [unbound |-> TRUE]

NoExit == -1

\* str.lower() on one character of the identifier alphabet
Lower(ch) ==
    CASE ch = "T" -> "t"
      [] ch = "A" -> "a"
      [] ch = "B" -> "b"
      [] OTHER -> ch

\* str.replace('_', '-') on one character
ReplaceUnderscore(ch) == IF ch = "_" THEN "-" ELSE ch

\* scenario.get('metadata', {}).get('id', 'unknown')
ScenarioId(s) == Get(Get(s, "metadata", [x \in {} |-> x]), "id", <<"unknown">>)

\* a name that keeps the underscores of the identifier
NamespaceOf_KeepUnderscore(id) ==
    <<"tf-k8s-">> \o [j \in 1..Len(id) |-> Lower(id[j])]

\* f"tf-k8s-{scenario_id.lower().replace('_', '-')}"
NamespaceOf(id) ==
    <<"tf-k8s-">> \o [j \in 1..Len(id) |-> ReplaceUnderscore(Lower(id[j]))]

\* step.get('name', f"Step {i+1}"), with i counted from 1 here
StepName(step, n) == Get(step, "name", <<"Step", n>>)

\* a step.get('critical', False): the default the wrong way round
StepCritical_DefaultFalse(step) == Get(step, "critical", FALSE)

\* a critical flag that is never read: every step counts as critical
StepCritical_AlwaysTrue(step) == TRUE

\* step.get('critical', True)
StepCritical(step) == Get(step, "critical", TRUE)

\* the threshold comparison the criteria loop performs: the placeholder
\* criterion_success = True, whatever threshold and actual are
CriterionSuccess(threshold, actual) == TRUE

\* the observed value the criteria loop records: the placeholder actual = 0
Actual == 0

-----------------------------------------------------------------------------
(* Scenario definitions *)

\* a command string of a step
Commands == {"sh"}

CommandLists == SeqsUpTo(Commands, MaxCmds) \ {<<>>}

\* steps with the critical key absent, true or false
StepDefs ==
    {[commands |-> cs] : cs \in CommandLists}
    \cup {[commands |-> cs, critical |-> b] : cs \in CommandLists, b \in BOOLEAN}

Thresholds == {0, 10}

CriterionDefs == {[name |-> <<"x">>, threshold |-> t] : t \in Thresholds}

\* the definitions run_scenario is explored on
RunDefinitions ==
    {[metadata |-> [id |-> <<"T", "_", "A">>], steps |-> ss, success_criteria |-> cr] :
        ss \in SeqsUpTo(StepDefs, MaxSteps),
        cr \in SeqsUpTo(CriterionDefs, MaxCriteria)}

\* a command entry of the YAML that is not a string
NotAString == "<int>"

\* the scenario_definition.yaml files the driver is explored on; a file whose
\* yaml_ok is FALSE does not parse
FixtureIds == {<<"T", "_", "A">>, <<"T", "_", "B">>}

\* the end-to-end scenario: apply, a non-critical wait, verify
FixtureEndToEnd ==
    [steps |-> <<[name |-> <<"apply">>, commands |-> <<"kubectl apply">>],
                 [name |-> <<"wait">>, commands |-> <<"kubectl wait">>, critical |-> FALSE],
                 [name |-> <<"verify">>, commands |-> <<"verify">>]>>,
     success_criteria |-> <<[name |-> <<"x">>, threshold |-> 10]>>]

\* a scenario whose only command is not a string
FixtureBadCommand ==
    [steps |-> <<[commands |-> <<NotAString>>]>>]

FileContents ==
    {[yaml_ok |-> FALSE, doc |-> Unbound]}
    \cup {[yaml_ok |-> TRUE,
           doc |-> [metadata |-> [id |-> id],
                    steps |-> FixtureEndToEnd.steps,
                    success_criteria |-> FixtureEndToEnd.success_criteria]] :
            id \in FixtureIds}
    \cup {[yaml_ok |-> TRUE,
           doc |-> [metadata |-> [id |-> id], steps |-> FixtureBadCommand.steps]] :
            id \in FixtureIds}

\* the identifiers the naming of namespaces is explored on: they differ in
\* case and in underscore against hyphen
NameIds ==
    {<<"T", "_", "A">>, <<"T", "-", "A">>, <<"t", "_", "a">>, <<"T", "_", "B">>}

\* definitions without steps that carry these identifiers, and one without
\* a metadata section
NameFiles ==
    {[yaml_ok |-> TRUE, doc |-> [metadata |-> [id |-> id], steps |-> <<>>]] : id \in NameIds}
    \cup {[yaml_ok |-> TRUE, doc |-> [steps |-> <<>>]]}

-----------------------------------------------------------------------------
(* find_scenarios *)

\* Strings are sequences of tokens, a token standing for the characters it
\* spells; "/" and "*" are tokens of their own.

\* the static group table
SCENARIO_GROUPS ==
    (<<"slo-core">> :>
        << <<"TF-SLO-", "VOL", "_", "DataVolumeReduction", "_", "SteadyWorkload">>,
           <<"TF-SLO-", "SER", "_", "ProcessCardinalityReduction", "_", "MixedWorkload">>,
           <<"TF-SLO-", "TOP5", "_", "DiagnosticIntegrity", "_", "TopCPUProcesses">> >>)
    @@ (<<"slo-perf">> :>
        << <<"TF-SLO-", "CPU", "_", "CollectorPerf", "_", "LoadTest", "_", "10Kdps", "_", "cAdvisor">>,
           <<"TF-SLO-", "RAM", "_", "CollectorPerf", "_", "LoadTest", "_", "10Kdps", "_",
             "HighState", "_", "cAdvisor">>,
           <<"TF-SLO-", "LAT", "_", "CollectorPipelineLatency", "_", "SteadyWorkload">> >>)
    @@ (<<"slo-alert">> :>
        << <<"TF-SLO-", "ALR", "_", "Recall", "_", "CPUSpikeReplay">>,
           <<"TF-SLO-", "ALR", "_", "Precision", "_", "NoSpikeWindow">> >>)
    @@ (<<"mfr-basic">> :>
        << <<"TF-MFR-SC", ".1", "_", "IngestionSources">>,
           <<"TF-MFR-SC", ".3", "_", "ExportSchema">>,
           <<"TF-MFR-SC", ".4", "_", "AttributeHandling">> >>)
    @@ (<<"mfr-advanced">> :>
        << <<"TF-MFR-SC", ".1", ".4", "_", "PidEnrichment", "_", "HostmetricsVariations">>,
           <<"TF-MFR-SC", ".5", "_", "Deduplication", "_", "MultiSourceMultiNode">>,
           <<"TF-MFR-SC", ".2", "_", "AggregationLogic", "_", "DiskIONetworkIO">> >>)
    @@ (<<"mfr-components">> :>
        << <<"TF-MFR-EP", "_", "AllRequirements">>,
           <<"TF-MFR-LA", "_", "AllRequirements">> >>)
    @@ (<<"regression">> :>
        << <<"TF-REG-Filter", "_", "HighCard", "_", "Memory", "_", "Scale">>,
           <<"TF-LINT-OTTL", "_", "StrictErrorMode">> >>)
    @@ (<<"security">> :>
        << <<"TF-SEC-1", "_", "SBOM", "_", "Validation">>,
           <<"TF-SEC-2", "_", "ImageSignature", "_", "Validation">>,
           <<"TF-SEC-3", "_", "EdgeProbeHardening">> >>)

\* f"tf-k8s/scenarios/{location}/{name}/scenario_definition.yaml"
DefinitionPath(location, name) ==
    <<"tf-k8s", "/", "scenarios", "/", location, "/">> \o name
        \o <<"/", "scenario_definition.yaml">>

\* the definition files on disk
DefinitionFiles(disk) ==
    {DefinitionPath("enabled", d) : d \in disk.enabled}
    \cup {DefinitionPath("pending", d) : d \in disk.pending}

\* fnmatch of a path against a pattern: "*" matches any run of tokens
\* within one path component
RECURSIVE GlobMatch(_, _)
GlobMatch(pattern, path) ==
    IF pattern = <<>>
      THEN path = <<>>
      ELSE IF Head(pattern) = "*"
        THEN \/ GlobMatch(Tail(pattern), path)
             \/ /\ path # <<>>
                /\ Head(path) # "/"
                /\ GlobMatch(pattern, Tail(path))
        ELSE /\ path # <<>>
             /\ Head(path) = Head(pattern)
             /\ GlobMatch(Tail(pattern), Tail(path))

\* the lists glob.glob(pattern) can return: the matching files, in the order
\* the directory listing yields them
Glob(pattern, disk) ==
    LET matching == {f \in DefinitionFiles(disk) : GlobMatch(pattern, f)}
    IN  {l \in [1..Cardinality(matching) -> matching] :
            \A a, b \in DOMAIN l : l[a] = l[b] => a = b}

\* the loop over SCENARIO_GROUPS[group]: found files are appended in table
\* order, a missing one prints a warning
RECURSIVE GroupScan(_, _)
GroupScan(ids, disk) ==
    IF ids = <<>>
      THEN {[scenarios |-> <<>>, printed |-> <<>>]}
      ELSE {[scenarios |-> found \o rest.scenarios,
             printed |-> (IF found # <<>>
                            THEN <<>>
                            ELSE << <<"WARNING: not found or not enabled", Head(ids)>> >>)
                         \o rest.printed] :
                found \in Glob(DefinitionPath("enabled", Head(ids)), disk),
                rest \in GroupScan(Tail(ids), disk)}

\* a resolution that falls back to the pending location when the scenario
\* is not enabled
find_scenarios_RunsPending(group, scenario_id, disk) ==
    IF scenario_id # <<>>
      THEN IF Glob(DefinitionPath("enabled", scenario_id), disk) # {<<>>}
             THEN {[scenarios |-> scenarios, printed |-> <<>>] :
                     scenarios \in Glob(DefinitionPath("enabled", scenario_id), disk)}
             ELSE {[scenarios |-> scenarios,
                    printed |-> IF scenarios # <<>>
                                  THEN << <<"WARNING: in pending status", scenario_id>> >>
                                  ELSE << <<"ERROR: not found", scenario_id>> >>] :
                     scenarios \in Glob(DefinitionPath("pending", scenario_id), disk)}
      ELSE IF group \in DOMAIN SCENARIO_GROUPS
        THEN GroupScan(SCENARIO_GROUPS[group], disk)
        ELSE {[scenarios |-> scenarios, printed |-> <<>>] :
                scenarios \in Glob(DefinitionPath("enabled", group \o <<"*">>), disk)}

\* a resolution of a table group that returns nothing once an identifier
\* of the group is missing
find_scenarios_MissingIsFatal(group, scenario_id, disk) ==
    IF scenario_id # <<>>
      THEN {[scenarios |-> scenarios,
             printed |-> IF scenarios # <<>>
                           THEN <<>>
                           ELSE IF Glob(DefinitionPath("pending", scenario_id), disk) # {<<>>}
                             THEN << <<"WARNING: in pending status", scenario_id>> >>
                             ELSE << <<"ERROR: not found", scenario_id>> >>] :
                scenarios \in Glob(DefinitionPath("enabled", scenario_id), disk)}
      ELSE IF group \in DOMAIN SCENARIO_GROUPS
        THEN {[scenarios |-> IF r.printed = <<>> THEN r.scenarios ELSE <<>>,
               printed |-> r.printed] :
                r \in GroupScan(SCENARIO_GROUPS[group], disk)}
        ELSE {[scenarios |-> scenarios, printed |-> <<>>] :
                scenarios \in Glob(DefinitionPath("enabled", group \o <<"*">>), disk)}

\* a resolution that looks an unknown group up as an exact directory name
find_scenarios_ExactGroup(group, scenario_id, disk) ==
    IF scenario_id # <<>>
      THEN {[scenarios |-> scenarios,
             printed |-> IF scenarios # <<>>
                           THEN <<>>
                           ELSE IF Glob(DefinitionPath("pending", scenario_id), disk) # {<<>>}
                             THEN << <<"WARNING: in pending status", scenario_id>> >>
                             ELSE << <<"ERROR: not found", scenario_id>> >>] :
                scenarios \in Glob(DefinitionPath("enabled", scenario_id), disk)}
      ELSE IF group \in DOMAIN SCENARIO_GROUPS
        THEN GroupScan(SCENARIO_GROUPS[group], disk)
        ELSE {[scenarios |-> scenarios, printed |-> <<>>] :
                scenarios \in Glob(DefinitionPath("enabled", group), disk)}

\* a resolution by identifier that, for a group of the table, returns only a
\* scenario the group lists
find_scenarios_GroupChecksId(group, scenario_id, disk) ==
    IF scenario_id # <<>>
      THEN IF group \in DOMAIN SCENARIO_GROUPS
                /\ \A n \in DOMAIN SCENARIO_GROUPS[group] :
                      SCENARIO_GROUPS[group][n] # scenario_id
             THEN {[scenarios |-> <<>>,
                    printed |-> << <<"ERROR: not found", scenario_id>> >>]}
             ELSE {[scenarios |-> scenarios,
                    printed |-> IF scenarios # <<>>
                                  THEN <<>>
                                  ELSE IF Glob(DefinitionPath("pending", scenario_id), disk)
                                            # {<<>>}
                                    THEN << <<"WARNING: in pending status", scenario_id>> >>
                                    ELSE << <<"ERROR: not found", scenario_id>> >>] :
                     scenarios \in Glob(DefinitionPath("enabled", scenario_id), disk)}
      ELSE IF group \in DOMAIN SCENARIO_GROUPS
        THEN GroupScan(SCENARIO_GROUPS[group], disk)
        ELSE {[scenarios |-> scenarios, printed |-> <<>>] :
                scenarios \in Glob(DefinitionPath("enabled", group \o <<"*">>), disk)}

\* find_scenarios(group, scenario_id): the possible results, each with the
\* lines printed; an empty scenario_id stands for None (both are falsy)
find_scenarios(group, scenario_id, disk) ==
    IF scenario_id # <<>>
      THEN {[scenarios |-> scenarios,
             printed |-> IF scenarios # <<>>
                           THEN <<>>
                           ELSE IF Glob(DefinitionPath("pending", scenario_id), disk) # {<<>>}
                             THEN << <<"WARNING: in pending status", scenario_id>> >>
                             ELSE << <<"ERROR: not found", scenario_id>> >>] :
                scenarios \in Glob(DefinitionPath("enabled", scenario_id), disk)}
      ELSE IF group \in DOMAIN SCENARIO_GROUPS
        THEN GroupScan(SCENARIO_GROUPS[group], disk)
        ELSE {[scenarios |-> scenarios, printed |-> <<>>] :
                scenarios \in Glob(DefinitionPath("enabled", group \o <<"*">>), disk)}

\* the scenario directories find_scenarios is explored on
DirNames ==
    {SCENARIO_GROUPS[<<"slo-alert">>][1],
     SCENARIO_GROUPS[<<"slo-alert">>][2],
     SCENARIO_GROUPS[<<"slo-core">>][1],
     SCENARIO_GROUPS[<<"slo-core">>][2],
     <<"TF-SLO-", "ALR", "_", "Extra">>}

\* the --group arguments find_scenarios is explored on: two table groups and
\* names that are not in the table
GroupArgs ==
    {<<"slo-alert">>, <<"slo-core">>, <<"TF-SLO-">>, <<"TF-SLO-", "ALR">>,
     <<"TF-SLO-", "ALR", "_", "Recall">>, <<"nightly">>}

\* the --scenario arguments: absent, a directory name, or a name that is nowhere
ScenarioArgs == {<<>>} \cup DirNames \cup {<<"TF-SEC-9", "_", "Missing">>}

-----------------------------------------------------------------------------
(* Initial states *)

\* main() after find_scenarios returned a list of distinct files
Init ==
    /\ args = Unbound
    /\ fs = Unbound
    /\ printed = <<>>
    /\ \E n \in 0..MaxScenarios : scenario_files = [f \in 1..n |-> f]
    /\ idx = 0
    /\ pc = "start"
    /\ success = TRUE
    /\ exit_code = NoExit
    /\ scenario = Unbound
    /\ namespace = <<>>
    /\ manifest_files = <<>>
    /\ apply_log = <<>>
    /\ results = Unbound
    /\ i = 0
    /\ c = 0
    /\ step_success = TRUE
    /\ step_output = <<>>
    /\ k = 0
    /\ cluster = {}
    /\ reports = [p \in {} |-> p]
    /\ now = 0
    /\ created = {}
    /\ delete_calls = {}
    /\ attempted = <<>>
    /\ caught = <<>>
    /\ returned = [f \in {} |-> f]
    /\ cmd_log = <<>>
    /\ ran = {}
    /\ raised_at = [f \in {} |-> f]
    /\ save_log = <<>>
    /\ loaded = [f \in {} |-> f]
    /\ errors = <<>>
    /\ valid = Unbound
    /\ dir = Unbound
    /\ warnings = <<>>
    /\ all_passed = TRUE
    /\ checked = <<>>

\* main() at the call of run_scenario for the first of one scenario file, the
\* setup of a definition of RunDefinitions having succeeded
InitRun ==
    /\ args = Unbound
    /\ fs = Unbound
    /\ printed = <<>>
    /\ scenario_files = <<1>>
    /\ idx = 1
    /\ pc = "run_scenario"
    /\ success = TRUE
    /\ exit_code = NoExit
    /\ scenario \in RunDefinitions
    /\ namespace = NamespaceOf(ScenarioId(scenario))
    /\ manifest_files = <<>>
    /\ apply_log = <<>>
    /\ results = Unbound
    /\ i = 0
    /\ c = 0
    /\ step_success = TRUE
    /\ step_output = <<>>
    /\ k = 0
    /\ cluster = {namespace}
    /\ reports = [p \in {} |-> p]
    /\ now = 0
    /\ created = {<<1, namespace>>}
    /\ delete_calls = {}
    /\ attempted = <<1>>
    /\ caught = <<>>
    /\ returned = [f \in {} |-> f]
    /\ cmd_log = <<>>
    /\ ran = {}
    /\ raised_at = [f \in {} |-> f]
    /\ save_log = <<>>
    /\ loaded = (1 :> ScenarioId(scenario))
    /\ errors = <<>>
    /\ valid = Unbound
    /\ dir = Unbound
    /\ warnings = <<>>
    /\ all_passed = TRUE
    /\ checked = <<>>

\* main() after parse_args, on every disk and argument of the sets above
InitFind ==
    /\ args \in [group : GroupArgs, scenario : ScenarioArgs]
    /\ fs \in [enabled : SUBSET DirNames, pending : SUBSET DirNames]
    /\ printed = <<>>
    /\ scenario_files = <<>>
    /\ idx = 0
    /\ pc = "find_scenarios"
    /\ success = TRUE
    /\ exit_code = NoExit
    /\ scenario = Unbound
    /\ namespace = <<>>
    /\ manifest_files = <<>>
    /\ apply_log = <<>>
    /\ results = Unbound
    /\ i = 0
    /\ c = 0
    /\ step_success = TRUE
    /\ step_output = <<>>
    /\ k = 0
    /\ cluster = {}
    /\ reports = [p \in {} |-> p]
    /\ now = 0
    /\ created = {}
    /\ delete_calls = {}
    /\ attempted = <<>>
    /\ caught = <<>>
    /\ returned = [f \in {} |-> f]
    /\ cmd_log = <<>>
    /\ ran = {}
    /\ raised_at = [f \in {} |-> f]
    /\ save_log = <<>>
    /\ loaded = [f \in {} |-> f]
    /\ errors = <<>>
    /\ valid = Unbound
    /\ dir = Unbound
    /\ warnings = <<>>
    /\ all_passed = TRUE
    /\ checked = <<>>

-----------------------------------------------------------------------------
(* main *)

findVars == <<args, fs, printed>>
checkVars == <<dir, warnings, all_passed, checked>>
validatorVars == <<errors, valid, checkVars>>
\* what the loop of main leaves alone
fixedVars == <<validatorVars, findVars>>
mainVars == <<scenario_files, idx, success, exit_code>>
setupVars == <<scenario, namespace, manifest_files, apply_log>>
runVars == <<results, i, c, step_success, step_output, k, cmd_log, ran>>
envVars == <<cluster, reports, now>>
histVars == <<created, delete_calls, attempted, caught, returned, raised_at, save_log,
             loaded>>

\* a statement of the try block that completes: the next statement is reached
NoRaise(next) ==
    /\ success' = success
    /\ caught' = caught
    /\ raised_at' = raised_at
    /\ pc' = next

\* an exception that is not caught inside the loop: the run ends there
Raise_Abort ==
    /\ success' = FALSE
    /\ caught' = Append(caught, idx)
    /\ raised_at' = (idx :> pc) @@ raised_at
    /\ pc' = "exit"

\* except Exception as e: success = False, and the for loop goes on
Raise ==
    /\ success' = FALSE
    /\ caught' = Append(caught, idx)
    /\ raised_at' = (idx :> pc) @@ raised_at
    /\ pc' = "loop"

\* scenario_files = find_scenarios(args.group, args.scenario) if args.scenario
\* else find_scenarios(args.group)
MainFindScenarios ==
    /\ pc = "find_scenarios"
    /\ \E r \in (IF args.scenario # <<>>
                   THEN find_scenarios(args.group, args.scenario, fs)
                   ELSE find_scenarios(args.group, <<>>, fs)) :
         /\ scenario_files' = r.scenarios
         /\ printed' = r.printed
    /\ pc' = "start"
    /\ UNCHANGED <<validatorVars, args, fs, idx, success, exit_code, setupVars, runVars,
                   envVars, histVars>>

\* a driver without the empty-list check
MainStart_NoEmptyCheck ==
    /\ pc = "start"
    /\ pc' = "loop"
    /\ UNCHANGED <<fixedVars, mainVars, setupVars, runVars, envVars, histVars>>

\* if not scenario_files: sys.exit(1)
MainStart ==
    /\ pc = "start"
    /\ IF scenario_files = <<>>
         THEN exit_code' = 1 /\ pc' = "exit"
         ELSE exit_code' = exit_code /\ pc' = "loop"
    /\ UNCHANGED <<fixedVars, scenario_files, idx, success, setupVars, runVars, envVars, histVars>>

\* a loop that takes the next file while the cleanup of the current one is
\* still to run
MainLoop_Overlapping ==
    /\ pc \in {"loop", "cleanup_scenario"}
    /\ idx < Len(scenario_files)
    /\ idx' = idx + 1
    /\ attempted' = Append(attempted, idx + 1)
    /\ pc' = "setup_scenario"
    /\ UNCHANGED <<fixedVars, scenario_files, success, exit_code, setupVars, runVars, envVars,
                   created, delete_calls, caught, returned, raised_at, save_log, loaded>>

\* for scenario_file in scenario_files: the next file, if there is one
MainLoop ==
    /\ pc = "loop"
    /\ idx < Len(scenario_files)
    /\ idx' = idx + 1
    /\ attempted' = Append(attempted, idx + 1)
    /\ pc' = "setup_scenario"
    /\ UNCHANGED <<fixedVars, scenario_files, success, exit_code, setupVars, runVars, envVars,
                   created, delete_calls, caught, returned, raised_at, save_log, loaded>>

\* if not success: sys.exit(1), after the last file
MainExit ==
    /\ pc = "loop"
    /\ idx = Len(scenario_files)
    /\ exit_code' = IF success THEN 0 ELSE 1
    /\ pc' = "exit"
    /\ UNCHANGED <<fixedVars, scenario_files, idx, success, setupVars, runVars, envVars, histVars>>

-----------------------------------------------------------------------------
(* setup_scenario *)

\* with open(scenario_path) as f: scenario = yaml.safe_load(f), then the
\* namespace name; a file that does not parse raises
SetupLoadFrom(files) ==
    /\ pc = "setup_scenario"
    /\ \E file \in files :
         IF file.yaml_ok
           THEN /\ scenario' = file.doc
                /\ namespace' = NamespaceOf(ScenarioId(file.doc))
                /\ loaded' = (idx :> ScenarioId(file.doc)) @@ loaded
                /\ apply_log' = <<>>
                /\ NoRaise("create_namespace")
           ELSE /\ UNCHANGED <<scenario, namespace, apply_log, loaded>>
                /\ Raise
    /\ UNCHANGED <<fixedVars, scenario_files, idx, exit_code, manifest_files, runVars, envVars,
                   created, delete_calls, attempted, returned, save_log>>

\* setup_scenario on the fixture files
SetupLoad == SetupLoadFrom(FileContents)

\* setup_scenario on the naming files
NamesLoad == SetupLoadFrom(NameFiles)

\* a create call without check=True: its failure goes unnoticed
SetupCreateNamespace_Unchecked ==
    /\ pc = "create_namespace"
    /\ \/ /\ namespace \notin cluster
          /\ cluster' = cluster \cup {namespace}
          /\ created' = created \cup {<<idx, namespace>>}
       \/ UNCHANGED <<cluster, created>>
    /\ \E n \in 0..MaxManifests : manifest_files' = [j \in 1..n |-> j]
    /\ NoRaise("apply_manifests")
    /\ UNCHANGED <<fixedVars, scenario_files, idx, exit_code, scenario, namespace,
                   apply_log, runVars, reports, now, delete_calls, attempted, returned,
                   save_log, loaded>>

\* subprocess.run(['kubectl', 'create', 'namespace', namespace], check=True),
\* then the glob of the k8s directory; the create fails when the namespace exists
SetupCreateNamespace ==
    /\ pc = "create_namespace"
    /\ \/ /\ namespace \notin cluster
          /\ cluster' = cluster \cup {namespace}
          /\ created' = created \cup {<<idx, namespace>>}
          /\ \E n \in 0..MaxManifests : manifest_files' = [j \in 1..n |-> j]
          /\ NoRaise("apply_manifests")
       \/ /\ UNCHANGED <<cluster, created, manifest_files>>
          /\ Raise
    /\ UNCHANGED <<fixedVars, scenario_files, idx, exit_code, scenario, namespace,
                   apply_log, runVars, reports, now, delete_calls, attempted, returned,
                   save_log, loaded>>

\* an apply call without check=True: the loop goes on after a failed apply
SetupApply_Unchecked ==
    /\ pc = "apply_manifests"
    /\ IF manifest_files = <<>>
         THEN /\ UNCHANGED <<manifest_files, apply_log>>
              /\ NoRaise("run_scenario")
         ELSE /\ manifest_files' = Tail(manifest_files)
              /\ \E ok \in BOOLEAN :
                   apply_log' = Append(apply_log,
                        [file |-> idx, manifest |-> Head(manifest_files), ok |-> ok])
              /\ NoRaise("apply_manifests")
    /\ UNCHANGED <<fixedVars, scenario_files, idx, exit_code, scenario, namespace, runVars,
                   envVars, created, delete_calls, attempted, returned, save_log, loaded>>

\* a setup that deletes the namespace again when an apply fails
SetupApply_RollbackOnFailure ==
    /\ pc = "apply_manifests"
    /\ IF manifest_files = <<>>
         THEN /\ UNCHANGED <<manifest_files, apply_log, cluster, delete_calls>>
              /\ NoRaise("run_scenario")
         ELSE \/ /\ manifest_files' = Tail(manifest_files)
                 /\ apply_log' = Append(apply_log,
                        [file |-> idx, manifest |-> Head(manifest_files), ok |-> TRUE])
                 /\ UNCHANGED <<cluster, delete_calls>>
                 /\ NoRaise("apply_manifests")
              \/ /\ UNCHANGED manifest_files
                 /\ apply_log' = Append(apply_log,
                        [file |-> idx, manifest |-> Head(manifest_files), ok |-> FALSE])
                 /\ cluster' = cluster \ {namespace}
                 /\ delete_calls' = delete_calls \cup {<<idx, namespace>>}
                 /\ Raise
    /\ UNCHANGED <<fixedVars, scenario_files, idx, exit_code, scenario, namespace, runVars,
                   reports, now, created, attempted, returned, save_log, loaded>>

\* for manifest in manifest_files: subprocess.run(['kubectl', 'apply', ...],
\* check=True); return scenario, namespace after the last one
SetupApply ==
    /\ pc = "apply_manifests"
    /\ IF manifest_files = <<>>
         THEN /\ UNCHANGED <<manifest_files, apply_log>>
              /\ NoRaise("run_scenario")
         ELSE \/ /\ manifest_files' = Tail(manifest_files)
                 /\ apply_log' = Append(apply_log,
                        [file |-> idx, manifest |-> Head(manifest_files), ok |-> TRUE])
                 /\ NoRaise("apply_manifests")
              \/ /\ UNCHANGED manifest_files
                 /\ apply_log' = Append(apply_log,
                        [file |-> idx, manifest |-> Head(manifest_files), ok |-> FALSE])
                 /\ Raise
    /\ UNCHANGED <<fixedVars, scenario_files, idx, exit_code, scenario, namespace, runVars,
                   envVars, created, delete_calls, attempted, returned, save_log, loaded>>

-----------------------------------------------------------------------------
(* run_scenario *)

Steps == Get(scenario, "steps", <<>>)
Criteria == Get(scenario, "success_criteria", <<>>)
StepCommands(step) == Get(step, "commands", <<>>)

notRun == <<fixedVars, mainVars, setupVars, envVars, histVars>>

\* results = {'scenario_id': ..., 'steps': [], 'success': True}
RunInit ==
    /\ pc = "run_scenario"
    /\ results' = [scenario_id |-> ScenarioId(scenario), steps |-> <<>>, success |-> TRUE]
    /\ i' = 1
    /\ cmd_log' = <<>>
    /\ pc' = IF Steps = <<>> THEN "criteria" ELSE "for_step"
    /\ UNCHANGED <<c, step_success, step_output, k, ran, notRun>>

\* for i, step in enumerate(steps): step_success = True, step_output = []
RunForStep ==
    /\ pc = "for_step"
    /\ step_success' = TRUE
    /\ step_output' = <<>>
    /\ c' = 1
    /\ pc' = IF StepCommands(Steps[i]) = <<>> THEN "append_step" ELSE "for_cmd"
    /\ UNCHANGED <<results, i, k, cmd_log, ran, notRun>>

\* what command n of step s writes to its standard output
Stdout(s, n) == <<"out", s, n>>

\* f"ERROR: {str(e)}" for the CalledProcessError of command n of step s
ErrorText(s, n) == <<"ERROR: ", s, n>>

\* a command loop whose except branch appends nothing to the output
RunCommand_NoErrorChunk ==
    /\ pc = "for_cmd"
    /\ StepCommands(Steps[i])[c] # NotAString
    /\ \/ /\ step_output' = Append(step_output, Stdout(i, c))
          /\ cmd_log' = Append(cmd_log, [step |-> i, cmd |-> c, ok |-> TRUE])
          /\ c' = c + 1
          /\ pc' = IF c = Len(StepCommands(Steps[i])) THEN "append_step" ELSE "for_cmd"
          /\ UNCHANGED <<step_success, results>>
       \/ /\ step_success' = FALSE
          /\ results' = [results EXCEPT !.success = FALSE]
          /\ cmd_log' = Append(cmd_log, [step |-> i, cmd |-> c, ok |-> FALSE])
          /\ pc' = "append_step"
          /\ UNCHANGED <<c, step_output>>
    /\ ran' = ran \cup {idx}
    /\ UNCHANGED <<i, k, notRun>>

\* a command loop whose except branch lacks the break
RunCommand_NoBreak ==
    /\ pc = "for_cmd"
    /\ StepCommands(Steps[i])[c] # NotAString
    /\ \/ /\ step_output' = Append(step_output, Stdout(i, c))
          /\ cmd_log' = Append(cmd_log, [step |-> i, cmd |-> c, ok |-> TRUE])
          /\ UNCHANGED <<step_success, results>>
       \/ /\ step_success' = FALSE
          /\ results' = [results EXCEPT !.success = FALSE]
          /\ step_output' = Append(step_output, ErrorText(i, c))
          /\ cmd_log' = Append(cmd_log, [step |-> i, cmd |-> c, ok |-> FALSE])
    /\ c' = c + 1
    /\ pc' = IF c = Len(StepCommands(Steps[i])) THEN "append_step" ELSE "for_cmd"
    /\ ran' = ran \cup {idx}
    /\ UNCHANGED <<i, k, notRun>>

\* a command loop whose except branch clears the step's flag only
RunCommand_KeepOverall ==
    /\ pc = "for_cmd"
    /\ StepCommands(Steps[i])[c] # NotAString
    /\ \/ /\ step_output' = Append(step_output, Stdout(i, c))
          /\ cmd_log' = Append(cmd_log, [step |-> i, cmd |-> c, ok |-> TRUE])
          /\ c' = c + 1
          /\ pc' = IF c = Len(StepCommands(Steps[i])) THEN "append_step" ELSE "for_cmd"
          /\ UNCHANGED step_success
       \/ /\ step_success' = FALSE
          /\ step_output' = Append(step_output, ErrorText(i, c))
          /\ cmd_log' = Append(cmd_log, [step |-> i, cmd |-> c, ok |-> FALSE])
          /\ pc' = "append_step"
          /\ UNCHANGED c
    /\ ran' = ran \cup {idx}
    /\ UNCHANGED <<results, i, k, notRun>>

\* subprocess.check_output(cmd, shell=True, text=True): the output is appended,
\* or CalledProcessError sets both flags, appends the error text and breaks
RunCommand ==
    /\ pc = "for_cmd"
    /\ StepCommands(Steps[i])[c] # NotAString
    /\ \/ /\ step_output' = Append(step_output, Stdout(i, c))
          /\ cmd_log' = Append(cmd_log, [step |-> i, cmd |-> c, ok |-> TRUE])
          /\ c' = c + 1
          /\ pc' = IF c = Len(StepCommands(Steps[i])) THEN "append_step" ELSE "for_cmd"
          /\ UNCHANGED <<step_success, results>>
       \/ /\ step_success' = FALSE
          /\ results' = [results EXCEPT !.success = FALSE]
          /\ step_output' = Append(step_output, ErrorText(i, c))
          /\ cmd_log' = Append(cmd_log, [step |-> i, cmd |-> c, ok |-> FALSE])
          /\ pc' = "append_step"
          /\ UNCHANGED c
    /\ ran' = ran \cup {idx}
    /\ UNCHANGED <<i, k, notRun>>

\* cmd.replace('{namespace}', namespace) on a command that is not a string
\* raises AttributeError, which leaves run_scenario
RunCommandRaise ==
    /\ pc = "for_cmd"
    /\ StepCommands(Steps[i])[c] = NotAString
    /\ Raise
    /\ UNCHANGED <<fixedVars, scenario_files, idx, exit_code, setupVars, runVars, envVars,
                   created, delete_calls, attempted, returned, save_log, loaded>>

\* a step loop that keeps the record of the last step only
RunAppendStep_KeepsLastOnly ==
    /\ pc = "append_step"
    /\ results' = [results EXCEPT !.steps =
                      <<[name |-> StepName(Steps[i], i),
                         success |-> step_success,
                         output |-> step_output]>>]
    /\ IF ~step_success /\ StepCritical(Steps[i])
         THEN i' = i /\ pc' = "criteria"
         ELSE i' = i + 1 /\ pc' = IF i = Len(Steps) THEN "criteria" ELSE "for_step"
    /\ UNCHANGED <<c, step_success, step_output, k, cmd_log, ran, notRun>>

\* a break after every failed step, the critical flag not being read
RunAppendStep_BreakOnAnyFailure ==
    /\ pc = "append_step"
    /\ results' = [results EXCEPT !.steps = Append(@,
                      [name |-> StepName(Steps[i], i),
                       success |-> step_success,
                       output |-> step_output])]
    /\ IF ~step_success
         THEN i' = i /\ pc' = "criteria"
         ELSE i' = i + 1 /\ pc' = IF i = Len(Steps) THEN "criteria" ELSE "for_step"
    /\ UNCHANGED <<c, step_success, step_output, k, cmd_log, ran, notRun>>

\* results['steps'].append({...}); a failed critical step breaks the loop
RunAppendStep ==
    /\ pc = "append_step"
    /\ results' = [results EXCEPT !.steps = Append(@,
                      [name |-> StepName(Steps[i], i),
                       success |-> step_success,
                       output |-> step_output])]
    /\ IF ~step_success /\ StepCritical(Steps[i])
         THEN i' = i /\ pc' = "criteria"
         ELSE i' = i + 1 /\ pc' = IF i = Len(Steps) THEN "criteria" ELSE "for_step"
    /\ UNCHANGED <<c, step_success, step_output, k, cmd_log, ran, notRun>>

\* a criteria loop that is skipped once a step has failed
RunCriteriaInit_SkipWhenFailed ==
    /\ pc = "criteria"
    /\ results' = [scenario_id |-> results.scenario_id, steps |-> results.steps,
                   success |-> results.success, criteria |-> <<>>]
    /\ k' = 1
    /\ pc' = IF Criteria = <<>> \/ ~results.success THEN "return" ELSE "for_criterion"
    /\ UNCHANGED <<i, c, step_success, step_output, cmd_log, ran, notRun>>

\* results['criteria'] = []
RunCriteriaInit ==
    /\ pc = "criteria"
    /\ results' = [scenario_id |-> results.scenario_id, steps |-> results.steps,
                   success |-> results.success, criteria |-> <<>>]
    /\ k' = 1
    /\ pc' = IF Criteria = <<>> THEN "return" ELSE "for_criterion"
    /\ UNCHANGED <<i, c, step_success, step_output, cmd_log, ran, notRun>>

\* for criterion in criteria: the criterion's record is appended, and a failed
\* criterion clears results['success']
RunCriterion ==
    /\ pc = "for_criterion"
    /\ LET criterion == Criteria[k]
           threshold == Get(criterion, "threshold", 0)
           criterion_success == CriterionSuccess(threshold, Actual)
       IN  results' = [results EXCEPT
                         !.criteria = Append(@,
                             [name |-> Get(criterion, "name", <<"Unnamed criterion">>),
                              threshold |-> threshold,
                              actual |-> Actual,
                              success |-> criterion_success]),
                         !.success = IF criterion_success THEN @ ELSE FALSE]
    /\ k' = k + 1
    /\ pc' = IF k = Len(Criteria) THEN "return" ELSE "for_criterion"
    /\ UNCHANGED <<i, c, step_success, step_output, cmd_log, ran, notRun>>

\* a driver that saves the result of a successful run only
RunReturn_SaveOnSuccessOnly ==
    /\ pc = "return"
    /\ returned' = (idx :> results.success) @@ returned
    /\ pc' = IF results.success THEN "save_results" ELSE "check_results"
    /\ UNCHANGED <<fixedVars, mainVars, setupVars, runVars, envVars, created, delete_calls,
                   attempted, caught, raised_at, save_log, loaded>>

\* a driver that goes from run_scenario straight to the cleanup
RunReturn_SkipSave ==
    /\ pc = "return"
    /\ returned' = (idx :> results.success) @@ returned
    /\ pc' = "cleanup_scenario"
    /\ UNCHANGED <<fixedVars, mainVars, setupVars, runVars, envVars, created, delete_calls,
                   attempted, caught, raised_at, save_log, loaded>>

\* return results
RunReturn ==
    /\ pc = "return"
    /\ returned' = (idx :> results.success) @@ returned
    /\ pc' = "save_results"
    /\ UNCHANGED <<fixedVars, mainVars, setupVars, runVars, envVars, created, delete_calls,
                   attempted, caught, raised_at, save_log, loaded>>

-----------------------------------------------------------------------------
(* save_results, cleanup_scenario and the rest of main's loop body *)

\* datetime.now().strftime("%Y%m%d-%H%M%S"): a text of fixed width, the date,
\* a hyphen and the time of day; the clock stays within one day
Strftime(t) == <<"%Y%m%d", "-", t>>

\* a file name without the scenario identifier
ReportPath_NoId(scenario_id, timestamp) ==
    <<"tf-k8s/reports", "/">> \o timestamp \o <<".json">>

\* the path f"{output_dir}/{scenario_id}_{timestamp}.json"
ReportPath(scenario_id, timestamp) ==
    <<"tf-k8s/reports", "/">> \o scenario_id \o <<"_">> \o timestamp \o <<".json">>

\* a driver that cleans up when save_results raised
SaveResults_CleanupOnRaise ==
    /\ pc = "save_results"
    /\ \/ /\ \E t \in now..MaxTime :
               /\ now' = t
               /\ reports' = (ReportPath(results.scenario_id, Strftime(t)) :> results)
                                 @@ reports
          /\ save_log' = Append(save_log, [file |-> idx, ok |-> TRUE])
          /\ NoRaise("check_results")
       \/ /\ UNCHANGED <<now, reports>>
          /\ save_log' = Append(save_log, [file |-> idx, ok |-> FALSE])
          /\ success' = FALSE
          /\ caught' = Append(caught, idx)
          /\ raised_at' = (idx :> pc) @@ raised_at
          /\ pc' = "cleanup_scenario"
    /\ UNCHANGED <<fixedVars, scenario_files, idx, exit_code, setupVars, runVars, cluster,
                   created, delete_calls, attempted, returned, loaded>>

\* json.dump(results, f) to the path of the current second, or OSError;
\* open(filename, 'w') replaces a file that is there
SaveResults ==
    /\ pc = "save_results"
    /\ \/ /\ \E t \in now..MaxTime :
               /\ now' = t
               /\ reports' = (ReportPath(results.scenario_id, Strftime(t)) :> results)
                                 @@ reports
          /\ save_log' = Append(save_log, [file |-> idx, ok |-> TRUE])
          /\ NoRaise("check_results")
       \/ /\ UNCHANGED <<now, reports>>
          /\ save_log' = Append(save_log, [file |-> idx, ok |-> FALSE])
          /\ Raise
    /\ UNCHANGED <<fixedVars, scenario_files, idx, exit_code, setupVars, runVars, cluster,
                   created, delete_calls, attempted, returned, loaded>>

\* a driver that does not look at results['success']
MainCheckResults_Ignore ==
    /\ pc = "check_results"
    /\ pc' = "cleanup_scenario"
    /\ UNCHANGED <<fixedVars, mainVars, setupVars, runVars, envVars, histVars>>

\* if not results['success']: success = False
MainCheckResults ==
    /\ pc = "check_results"
    /\ success' = IF ~results.success THEN FALSE ELSE success
    /\ pc' = "cleanup_scenario"
    /\ UNCHANGED <<fixedVars, scenario_files, idx, exit_code, setupVars, runVars, envVars, histVars>>

\* a delete call without check=True: its failure goes unnoticed
CleanupScenario_Unchecked ==
    /\ pc = "cleanup_scenario"
    /\ delete_calls' = delete_calls \cup {<<idx, namespace>>}
    /\ cluster' \in {cluster, cluster \ {namespace}}
    /\ NoRaise("loop")
    /\ UNCHANGED <<fixedVars, scenario_files, idx, exit_code, setupVars, runVars, reports, now,
                   created, attempted, returned, save_log, loaded>>

\* subprocess.run(['kubectl', 'delete', 'namespace', namespace,
\* '--timeout=60s'], check=True): a failed or timed-out delete raises, and the
\* namespace may or may not be gone
CleanupScenario ==
    /\ pc = "cleanup_scenario"
    /\ delete_calls' = delete_calls \cup {<<idx, namespace>>}
    /\ \/ /\ cluster' = cluster \ {namespace}
          /\ NoRaise("loop")
       \/ /\ cluster' \in {cluster, cluster \ {namespace}}
          /\ Raise
    /\ UNCHANGED <<fixedVars, scenario_files, idx, exit_code, setupVars, runVars, reports, now,
                   created, attempted, returned, save_log, loaded>>

-----------------------------------------------------------------------------
(* TestValidator.validate_scenario_definition *)

MaxValidatorSteps == 3

\* "needle in cmd": the command text has the needle as a substring
Contains(cmd, needle) == \E j \in 1..Len(cmd) : cmd[j] = needle

\* a command entry of the YAML that is an integer
IntCommand == <<NotAString>>

\* the command lists the validator is explored on
ValidatorCommandLists ==
    LET apply == <<"kubectl apply", " -f app.yaml">>
        verify == <<"./", "verify", ".sh">>
        sleep == <<"sleep 5">>
    IN  {<<apply>>, <<verify>>, <<sleep>>, <<IntCommand>>, <<apply, IntCommand>>,
         <<IntCommand, apply>>, <<sleep, verify>>}

ValidatorStepDefs ==
    {[name |-> <<"s">>]}
    \cup {[name |-> <<"s">>, commands |-> cs] : cs \in ValidatorCommandLists}

\* identifiers as runs of characters: "TF-", runs of capitals, of digits and
\* of word characters
UpperRuns == {"SLO"}
DigitRuns == {"1"}
WordRuns == {"SLO", "1", "Name", "_"}

\* re.match(r"^TF-[A-Z]+-[0-9]+_[A-Za-z0-9_]+$", id)
IdMatches(id) ==
    /\ Len(id) >= 6
    /\ id[1] = "TF-"
    /\ id[2] \in UpperRuns
    /\ id[3] = "-"
    /\ id[4] \in DigitRuns
    /\ id[5] = "_"
    /\ \A j \in 6..Len(id) : id[j] \in WordRuns

ValidatorMetadata ==
    {[id |-> id, name |-> "n", description |-> "d", version |-> "v", tags |-> "t",
      eidc_references |-> "e"] :
        id \in {<<"TF-", "SLO", "-", "1", "_", "Name">>, <<"TF-", "SLO", "_", "Name">>}}

ValidatorRequirements ==
    {[cluster_type |-> "kind", components |-> <<"collector">>],
     [cluster_type |-> "minikube", components |-> <<>>]}

ValidatorCriteria ==
    {<<[name |-> <<"x">>, threshold |-> 10, metric |-> "m"]>>,
     <<[name |-> <<"x">>, threshold |-> 10]>>}

\* the definitions validate_scenario_definition is explored on: a section is
\* there or not, the step list has up to MaxValidatorSteps steps
ValidatorDefinitions ==
    LET WithKey(ds, key, values) ==
            ds \cup {[x \in DOMAIN d \cup {key} |-> IF x = key THEN v ELSE d[x]] :
                        d \in ds, v \in values}
        withSteps == {[steps |-> ss] :
                         ss \in SeqsUpTo(ValidatorStepDefs, MaxValidatorSteps)}
        d1 == WithKey(withSteps, "requirements", ValidatorRequirements)
                \cup {[requirements |-> r] : r \in ValidatorRequirements}
        d2 == WithKey(d1, "metadata", ValidatorMetadata)
    IN  WithKey(d2, "success_criteria", ValidatorCriteria)

\* for key in keys: if key not in present: self.errors.append(message + key)
MissingErrors(keys, present, message) ==
    LET missing == SelectSeq(keys, LAMBDA key : key \notin present)
    IN  [j \in 1..Len(missing) |-> <<message, missing[j]>>]

\* for section in required_sections: if section not in scenario
SectionErrors(doc) ==
    MissingErrors(<<"metadata", "requirements", "steps", "success_criteria">>, DOMAIN doc,
                  "Required section missing in scenario definition")

\* the required metadata fields and the format of the identifier
MetadataErrors(doc) ==
    IF "metadata" \notin DOMAIN doc
      THEN <<>>
      ELSE MissingErrors(<<"id", "name", "description", "version", "tags", "eidc_references">>,
                         DOMAIN doc.metadata, "Required metadata field missing")
           \o (IF "id" \in DOMAIN doc.metadata /\ ~IdMatches(doc.metadata.id)
                 THEN << <<"Invalid scenario ID format", doc.metadata.id>> >>
                 ELSE <<>>)

\* the cluster type and the components of the requirements
RequirementErrors(doc) ==
    IF "requirements" \notin DOMAIN doc
      THEN <<>>
      ELSE (IF "cluster_type" \notin DOMAIN doc.requirements
              THEN << <<"Cluster type not specified in requirements">> >>
              ELSE IF doc.requirements.cluster_type \notin {"kind", "k3d-duo"}
                THEN << <<"Invalid cluster type", doc.requirements.cluster_type>> >>
                ELSE <<>>)
           \o (IF \/ "components" \notin DOMAIN doc.requirements
                   \/ doc.requirements.components = <<>>
                 THEN << <<"No components specified in requirements">> >>
                 ELSE <<>>)

\* any(needle in cmd for cmd in s.get("commands", [])): TRUE at the first
\* command that has the needle
AnyCommandHas(step, needle) ==
    \E j \in 1..Len(Get(step, "commands", <<>>)) :
        /\ step.commands[j] # IntCommand
        /\ Contains(step.commands[j], needle)
        /\ \A m \in 1..(j - 1) : step.commands[m] # IntCommand

\* the same any(...) reaches a command that is not a string before a command
\* that has the needle: "needle in cmd" raises TypeError
AnyCommandRaises(step, needle) ==
    \E j \in 1..Len(Get(step, "commands", <<>>)) :
        /\ step.commands[j] = IntCommand
        /\ \A m \in 1..(j - 1) : ~Contains(step.commands[m], needle)

\* [s for s in steps if any(...)] raises when any(...) does for some step
StepsWith(steps, needle) == {n \in 1..Len(steps) : AnyCommandHas(steps[n], needle)}
StepScanRaises(steps, needle) == \E n \in 1..Len(steps) : AnyCommandRaises(steps[n], needle)

\* a check of the steps that does not look for a verification step
StepErrors_NoVerifyCheck(steps) ==
    (IF Len(steps) < 3
       THEN << <<"Insufficient steps in scenario", Len(steps)>> >>
       ELSE <<>>)
    \o (IF StepsWith(steps, "kubectl apply") = {}
          THEN << <<"No deployment step found">> >>
          ELSE <<>>)

\* the errors of lines 109-120 when neither scan raises
StepErrors(steps) ==
    (IF steps = <<>> \/ Len(steps) < 3
       THEN << <<"Insufficient steps in scenario", Len(steps)>> >>
       ELSE <<>>)
    \o (IF StepsWith(steps, "kubectl apply") = {}
          THEN << <<"No deployment step found">> >>
          ELSE <<>>)
    \o (IF StepsWith(steps, "verify") = {}
          THEN << <<"No verification step found">> >>
          ELSE <<>>)

\* the errors appended before a scan raises
StepErrorsBeforeRaise(steps) ==
    (IF steps = <<>> \/ Len(steps) < 3
       THEN << <<"Insufficient steps in scenario", Len(steps)>> >>
       ELSE <<>>)
    \o (IF ~StepScanRaises(steps, "kubectl apply") /\ StepsWith(steps, "kubectl apply") = {}
          THEN << <<"No deployment step found">> >>
          ELSE <<>>)

\* for i, criterion in enumerate(criteria): the errors of criteria n and later
RECURSIVE CriterionErrors(_, _)
CriterionErrors(criteria, n) ==
    IF n > Len(criteria)
      THEN <<>>
      ELSE MissingErrors(<<"name", "threshold", "metric">>, DOMAIN criteria[n],
                         <<"missing in success criterion", n>>)
           \o CriterionErrors(criteria, n + 1)

\* the success criteria: at least one, each with name, threshold and metric
CriteriaErrors(doc) ==
    IF "success_criteria" \notin DOMAIN doc
      THEN <<>>
      ELSE (IF doc.success_criteria = <<>>
              THEN << <<"No success criteria specified">> >>
              ELSE <<>>)
           \o CriterionErrors(doc.success_criteria, 1)

\* with open(scenario_file) as f: scenario = yaml.safe_load(f), the file
\* holding one of docs; a file that is not YAML ends in the except
\* yaml.YAMLError branch, a file that is not there in the except Exception
\* branch (open raises FileNotFoundError)
ValidateLoadFrom(docs) ==
    /\ pc = "v_load"
    /\ IF ~(dir.exists /\ dir.definition)
         THEN /\ errors' = Append(errors,
                                  <<"Unexpected error validating scenario definition">>)
              /\ valid' = FALSE
              /\ pc' = "v_returned"
              /\ UNCHANGED scenario
         ELSE \/ /\ \E doc \in docs : scenario' = doc
                 /\ pc' = "v_sections"
                 /\ UNCHANGED <<errors, valid>>
              \/ /\ errors' = Append(errors, <<"Error parsing scenario definition">>)
                 /\ valid' = FALSE
                 /\ pc' = "v_returned"
                 /\ UNCHANGED scenario
    /\ UNCHANGED <<checkVars, findVars, mainVars, namespace, manifest_files, apply_log,
                   runVars, envVars, histVars>>

ValidateLoad == ValidateLoadFrom(ValidatorDefinitions)

\* what a check of the validator leaves alone
notValidate == <<checkVars, findVars, mainVars, setupVars, runVars, envVars, histVars>>

ValidateSections ==
    /\ pc = "v_sections"
    /\ errors' = errors \o SectionErrors(scenario)
    /\ pc' = "v_metadata"
    /\ UNCHANGED <<valid, notValidate>>

ValidateMetadata ==
    /\ pc = "v_metadata"
    /\ errors' = errors \o MetadataErrors(scenario)
    /\ pc' = "v_requirements"
    /\ UNCHANGED <<valid, notValidate>>

ValidateRequirements ==
    /\ pc = "v_requirements"
    /\ errors' = errors \o RequirementErrors(scenario)
    /\ pc' = "v_steps"
    /\ UNCHANGED <<valid, notValidate>>

\* the check of the steps; a TypeError of a scan ends in the except Exception
\* branch, which appends an error and returns False
ValidateSteps ==
    /\ pc = "v_steps"
    /\ IF "steps" \notin DOMAIN scenario
         THEN /\ pc' = "v_criteria"
              /\ UNCHANGED <<errors, valid>>
         ELSE IF \/ StepScanRaises(scenario.steps, "kubectl apply")
                 \/ StepScanRaises(scenario.steps, "verify")
           THEN /\ errors' = errors \o StepErrorsBeforeRaise(scenario.steps)
                                \o << <<"Unexpected error validating scenario definition">> >>
                /\ valid' = FALSE
                /\ pc' = "v_returned"
           ELSE /\ errors' = errors \o StepErrors(scenario.steps)
                /\ pc' = "v_criteria"
                /\ UNCHANGED valid
    /\ UNCHANGED notValidate

ValidateCriteria ==
    /\ pc = "v_criteria"
    /\ errors' = errors \o CriteriaErrors(scenario)
    /\ pc' = "v_return"
    /\ UNCHANGED <<valid, notValidate>>

\* return len(self.errors) == 0
ValidateReturn ==
    /\ pc = "v_return"
    /\ valid' = (errors = <<>>)
    /\ pc' = "v_returned"
    /\ UNCHANGED <<errors, notValidate>>

-----------------------------------------------------------------------------
(* TestValidator.validate *)

MaxDirFiles == 2

\* the descriptions of the patterns check_verification_script searches for
Patterns ==
    <<"Main execution block", "Exit with status code", "Command-line argument parsing",
      "Class definition">>

\* the *.py files a scenario directory is explored with: verify says that the
\* name matches verify*.py, missing holds the patterns the text lacks
ScriptKinds ==
    {[verify |-> TRUE, executable |-> TRUE, missing |-> {}, compiles |-> TRUE],
     [verify |-> TRUE, executable |-> FALSE,
      missing |-> {"Main execution block", "Class definition"}, compiles |-> FALSE],
     [verify |-> FALSE, executable |-> FALSE, missing |-> {}, compiles |-> TRUE]}

\* the files of the k8s directory: parse is what open and yaml.safe_load_all
\* do with the file, docs the YAML documents of a file that parses, lint
\* whether yamllint exits with 0 on it
ManifestKinds ==
    {[parse |-> "ok", lint |-> TRUE,
      docs |-> <<[kind |-> "Deployment", metadata |-> [name |-> "app"]]>>],
     [parse |-> "ok", lint |-> TRUE,
      docs |-> <<[metadata |-> [labels |-> "l"]], [kind |-> "Service"]>>],
     [parse |-> "YAMLError", lint |-> FALSE, docs |-> <<>>],
     [parse |-> "OSError", lint |-> FALSE, docs |-> <<>>]}

\* the scenario directories validate is explored on: the directory is not
\* there, or it is, with or without a definition file and a k8s directory;
\* python and yamllint say whether the two programs can be started
Directories ==
    {[exists |-> FALSE, definition |-> FALSE, scripts |-> <<>>, k8s_dir |-> FALSE,
      k8s_files |-> <<>>, python |-> TRUE, yamllint |-> FALSE]}
    \cup [exists : {TRUE}, definition : BOOLEAN,
          scripts : SeqsUpTo(ScriptKinds, MaxDirFiles),
          k8s_dir : {FALSE}, k8s_files : {<<>>}, python : BOOLEAN, yamllint : BOOLEAN]
    \cup [exists : {TRUE}, definition : BOOLEAN,
          scripts : SeqsUpTo(ScriptKinds, MaxDirFiles),
          k8s_dir : {TRUE}, k8s_files : SeqsUpTo(ManifestKinds, MaxDirFiles),
          python : BOOLEAN, yamllint : BOOLEAN]

\* a directory that holds a scenario_definition.yaml and nothing else
DefinitionOnly ==
    [exists |-> TRUE, definition |-> TRUE, scripts |-> <<>>, k8s_dir |-> FALSE,
     k8s_files |-> <<>>, python |-> TRUE, yamllint |-> FALSE]

\* the definitions validate is explored on: one without an error, one with
\* a section missing, one with too few steps, one with a command that is
\* not a string
CheckDefinitions ==
    LET apply == [name |-> <<"s">>, commands |-> << <<"kubectl apply", " -f app.yaml">> >>]
        verify == [name |-> <<"s">>, commands |-> << <<"./", "verify", ".sh">> >>]
        sleep == [name |-> <<"s">>, commands |-> << <<"sleep 5">> >>]
        number == [name |-> <<"s">>, commands |-> <<IntCommand>>]
        metadata == [id |-> <<"TF-", "SLO", "-", "1", "_", "Name">>, name |-> "n",
                     description |-> "d", version |-> "v", tags |-> "t",
                     eidc_references |-> "e"]
        requirements == [cluster_type |-> "kind", components |-> <<"collector">>]
        criteria == <<[name |-> <<"x">>, threshold |-> 10, metric |-> "m"]>>
    IN  {[metadata |-> metadata, requirements |-> requirements,
          steps |-> <<apply, sleep, verify>>, success_criteria |-> criteria],
         [metadata |-> metadata, steps |-> <<apply, sleep, verify>>,
          success_criteria |-> criteria],
         [metadata |-> metadata, requirements |-> requirements,
          steps |-> <<apply, verify>>, success_criteria |-> criteria],
         [metadata |-> metadata, requirements |-> requirements,
          steps |-> <<apply, number, verify>>, success_criteria |-> criteria]}

ChecksLoad == ValidateLoadFrom(CheckDefinitions)

\* What a check does is a record: the errors and the warnings it appends and
\* its return statement, "True", "False" or "NoErrors" for
\* len(self.errors) == 0.

\* check_directory_structure
DirectoryStructure(d) ==
    IF ~d.exists
      THEN [errors |-> << <<"Scenario directory does not exist">> >>, warnings |-> <<>>,
            return |-> "False"]
      ELSE IF ~d.definition
        THEN [errors |-> << <<"Required file missing", "scenario_definition.yaml">> >>,
              warnings |-> <<>>, return |-> "False"]
        ELSE [errors |-> <<>>,
              warnings |-> IF ~d.k8s_dir
                             THEN << <<"K8s directory missing">> >>
                             ELSE IF d.k8s_files = <<>>
                               THEN << <<"No Kubernetes resource files found">> >>
                               ELSE <<>>,
              return |-> "NoErrors"]

\* check_verification_script: the first verify*.py of the listing
VerificationScript(d) ==
    LET verify_scripts == SelectSeq(d.scripts, LAMBDA script : script.verify)
        absent == SelectSeq(Patterns, LAMBDA description :
                                description \in verify_scripts[1].missing)
    IN  [errors |-> <<>>,
         warnings |-> IF verify_scripts = <<>>
                        THEN << <<"No verification script found">> >>
                        ELSE (IF ~verify_scripts[1].executable
                                THEN << <<"Verification script is not executable">> >>
                                ELSE <<>>)
                             \o [j \in 1..Len(absent) |->
                                    <<"Verification script missing", absent[j]>>],
         return |-> "True"]

\* the warnings of the documents n and later of one k8s file
RECURSIVE DocumentWarnings(_, _)
DocumentWarnings(docs, n) ==
    IF n > Len(docs)
      THEN <<>>
      ELSE (IF DOMAIN docs[n] = {}
              THEN << <<"Empty YAML document", n>> >>
              ELSE (IF "kind" \notin DOMAIN docs[n]
                      THEN << <<"Missing 'kind' in YAML document", n>> >>
                      ELSE <<>>)
                   \o (IF "metadata" \notin DOMAIN docs[n]
                         THEN << <<"Missing 'metadata' in YAML document", n>> >>
                         ELSE IF "name" \notin DOMAIN docs[n].metadata
                           THEN << <<"Missing 'metadata.name' in YAML document", n>> >>
                           ELSE <<>>))
           \o DocumentWarnings(docs, n + 1)

\* for yaml_file in yaml_files: the errors and warnings of the files n and
\* later
RECURSIVE ResourceFindings(_, _)
ResourceFindings(files, n) ==
    IF n > Len(files)
      THEN [errors |-> <<>>, warnings |-> <<>>]
      ELSE LET rest == ResourceFindings(files, n + 1)
           IN  IF files[n].parse = "YAMLError"
                 THEN [errors |-> << <<"Error parsing YAML file", n>> >> \o rest.errors,
                       warnings |-> rest.warnings]
                 ELSE IF files[n].parse = "OSError"
                   THEN [errors |-> rest.errors,
                         warnings |-> << <<"Unexpected error checking YAML file", n>> >>
                                      \o rest.warnings]
                   ELSE [errors |-> rest.errors,
                         warnings |-> (IF files[n].docs = <<>>
                                         THEN << <<"Empty YAML file", n>> >>
                                         ELSE DocumentWarnings(files[n].docs, 1))
                                      \o rest.warnings]

\* check_k8s_resources
K8sResources(d) ==
    IF ~d.k8s_dir \/ d.k8s_files = <<>>
      THEN [errors |-> <<>>, warnings |-> <<>>, return |-> "True"]
      ELSE [errors |-> ResourceFindings(d.k8s_files, 1).errors,
            warnings |-> ResourceFindings(d.k8s_files, 1).warnings,
            return |-> "NoErrors"]

\* check_syntax, the loop over the *.py files: py_compile of the files n and
\* later
RECURSIVE CompileFindings(_, _)
CompileFindings(d, n) ==
    IF n > Len(d.scripts)
      THEN [errors |-> <<>>, warnings |-> <<>>]
      ELSE LET rest == CompileFindings(d, n + 1)
           IN  IF ~d.python
                 THEN [errors |-> rest.errors,
                       warnings |-> << <<"Error checking Python syntax", n>> >>
                                    \o rest.warnings]
                 ELSE IF ~d.scripts[n].compiles
                   THEN [errors |-> << <<"Python syntax error", n>> >> \o rest.errors,
                         warnings |-> rest.warnings]
                   ELSE rest

\* check_syntax, the yamllint loop: one warning for each YAML file below the
\* directory that yamllint does not exit with 0 on; definition_lint is its
\* outcome on scenario_definition.yaml
LintWarnings(d, definition_lint) ==
    IF ~d.yamllint
      THEN <<>>
      ELSE (IF d.definition /\ ~definition_lint
              THEN << <<"YAML lint issues", "scenario_definition.yaml">> >>
              ELSE <<>>)
           \o LET bad == SelectSeq([n \in 1..Len(d.k8s_files) |-> n],
                                   LAMBDA n : ~d.k8s_files[n].lint)
              IN  [j \in 1..Len(bad) |-> <<"YAML lint issues", bad[j]>>]

\* check_syntax
Syntax(d, definition_lint) ==
    [errors |-> CompileFindings(d, 1).errors,
     warnings |-> CompileFindings(d, 1).warnings \o LintWarnings(d, definition_lint),
     return |-> "NoErrors"]

\* a loop that leaves at the first check that fails
ValidateCheck_ShortCircuit(name, r, next) ==
    /\ errors' = errors \o r.errors
    /\ warnings' = warnings \o r.warnings
    /\ LET result == IF r.return = "NoErrors" THEN errors' = <<>> ELSE r.return = "True"
       IN  /\ all_passed' = (all_passed /\ result)
           /\ checked' = Append(checked, [check |-> name, returned |-> result])
           /\ pc' = IF result THEN next ELSE "validated"

\* one iteration of "for check in checks: if not check(): all_passed = False"
\* for a check that does r
ValidateCheck(name, r, next) ==
    /\ errors' = errors \o r.errors
    /\ warnings' = warnings \o r.warnings
    /\ LET result == IF r.return = "NoErrors" THEN errors' = <<>> ELSE r.return = "True"
       IN  /\ all_passed' = (all_passed /\ result)
           /\ checked' = Append(checked, [check |-> name, returned |-> result])
    /\ pc' = next

\* what the loop of validate leaves alone
notCheck == <<valid, dir, findVars, mainVars, setupVars, runVars, envVars, histVars>>

CheckDirectoryStructure ==
    /\ pc = "check_directory_structure"
    /\ ValidateCheck("check_directory_structure", DirectoryStructure(dir), "v_load")
    /\ UNCHANGED notCheck

\* validate_scenario_definition has returned to the loop
ValidateScenarioDefinition ==
    /\ pc = "v_returned"
    /\ ValidateCheck("validate_scenario_definition",
                     [errors |-> <<>>, warnings |-> <<>>,
                      return |-> IF valid THEN "True" ELSE "False"],
                     "check_verification_script")
    /\ UNCHANGED notCheck

CheckVerificationScript ==
    /\ pc = "check_verification_script"
    /\ ValidateCheck("check_verification_script", VerificationScript(dir),
                     "check_k8s_resources")
    /\ UNCHANGED notCheck

CheckK8sResources ==
    /\ pc = "check_k8s_resources"
    /\ ValidateCheck("check_k8s_resources", K8sResources(dir), "check_syntax")
    /\ UNCHANGED notCheck

\* the last check; validate then returns all_passed
CheckSyntax ==
    /\ pc = "check_syntax"
    /\ \E definition_lint \in BOOLEAN :
          ValidateCheck("check_syntax", Syntax(dir, definition_lint), "validated")
    /\ UNCHANGED notCheck

-----------------------------------------------------------------------------
(* Specifications *)

Next ==
    \/ MainStart
    \/ MainLoop
    \/ MainExit
    \/ SetupLoad
    \/ SetupCreateNamespace
    \/ SetupApply
    \/ RunInit
    \/ RunForStep
    \/ RunCommand
    \/ RunCommandRaise
    \/ RunAppendStep
    \/ RunCriteriaInit
    \/ RunCriterion
    \/ RunReturn
    \/ SaveResults
    \/ MainCheckResults
    \/ CleanupScenario

\* the whole driver, on the fixture files
Spec == Init /\ [][Next]_vars

NextRun ==
    \/ RunInit
    \/ RunForStep
    \/ RunCommand
    \/ RunAppendStep
    \/ RunCriteriaInit
    \/ RunCriterion
    \/ RunReturn

\* one call of run_scenario, on every definition of RunDefinitions
SpecRun == InitRun /\ [][NextRun]_vars

\* the driver on the naming files, whose definitions have no step and no
\* criterion
NextNames ==
    \/ MainStart
    \/ MainLoop
    \/ MainExit
    \/ NamesLoad
    \/ SetupCreateNamespace
    \/ SetupApply
    \/ RunInit
    \/ RunCriteriaInit
    \/ RunReturn
    \/ SaveResults
    \/ MainCheckResults
    \/ CleanupScenario

SpecNames == Init /\ [][NextNames]_vars

\* a validator whose directory check found no error, at the call of
\* validate_scenario_definition
InitValidate ==
    /\ args = Unbound
    /\ fs = Unbound
    /\ printed = <<>>
    /\ scenario_files = <<>>
    /\ idx = 0
    /\ pc = "v_load"
    /\ success = TRUE
    /\ exit_code = NoExit
    /\ scenario = Unbound
    /\ namespace = <<>>
    /\ manifest_files = <<>>
    /\ apply_log = <<>>
    /\ results = Unbound
    /\ i = 0
    /\ c = 0
    /\ step_success = TRUE
    /\ step_output = <<>>
    /\ k = 0
    /\ cluster = {}
    /\ reports = [p \in {} |-> p]
    /\ now = 0
    /\ created = {}
    /\ delete_calls = {}
    /\ attempted = <<>>
    /\ caught = <<>>
    /\ returned = [f \in {} |-> f]
    /\ cmd_log = <<>>
    /\ ran = {}
    /\ raised_at = [f \in {} |-> f]
    /\ save_log = <<>>
    /\ loaded = [f \in {} |-> f]
    /\ errors = <<>>
    /\ valid = Unbound
    /\ dir = DefinitionOnly
    /\ warnings = <<>>
    /\ all_passed = TRUE
    /\ checked = <<>>

NextValidate ==
    \/ ValidateLoad
    \/ ValidateSections
    \/ ValidateMetadata
    \/ ValidateRequirements
    \/ ValidateSteps
    \/ ValidateCriteria
    \/ ValidateReturn

SpecValidate == InitValidate /\ [][NextValidate]_vars

\* a validator after __init__, at the call of validate, on every directory
\* of Directories
InitChecks ==
    /\ args = Unbound
    /\ fs = Unbound
    /\ printed = <<>>
    /\ scenario_files = <<>>
    /\ idx = 0
    /\ pc = "check_directory_structure"
    /\ success = TRUE
    /\ exit_code = NoExit
    /\ scenario = Unbound
    /\ namespace = <<>>
    /\ manifest_files = <<>>
    /\ apply_log = <<>>
    /\ results = Unbound
    /\ i = 0
    /\ c = 0
    /\ step_success = TRUE
    /\ step_output = <<>>
    /\ k = 0
    /\ cluster = {}
    /\ reports = [p \in {} |-> p]
    /\ now = 0
    /\ created = {}
    /\ delete_calls = {}
    /\ attempted = <<>>
    /\ caught = <<>>
    /\ returned = [f \in {} |-> f]
    /\ cmd_log = <<>>
    /\ ran = {}
    /\ raised_at = [f \in {} |-> f]
    /\ save_log = <<>>
    /\ loaded = [f \in {} |-> f]
    /\ errors = <<>>
    /\ valid = Unbound
    /\ dir \in Directories
    /\ warnings = <<>>
    /\ all_passed = TRUE
    /\ checked = <<>>

NextChecks ==
    \/ CheckDirectoryStructure
    \/ ChecksLoad
    \/ ValidateSections
    \/ ValidateMetadata
    \/ ValidateRequirements
    \/ ValidateSteps
    \/ ValidateCriteria
    \/ ValidateReturn
    \/ ValidateScenarioDefinition
    \/ CheckVerificationScript
    \/ CheckK8sResources
    \/ CheckSyntax

\* one call of validate
SpecChecks == InitChecks /\ [][NextChecks]_vars

NextFind ==
    \/ MainFindScenarios
    \/ MainStart
    \/ MainLoop
    \/ SetupLoad

\* find_scenarios and the driver up to the load of each resolved file
SpecFind == InitFind /\ [][NextFind]_vars

-----------------------------------------------------------------------------
(* Properties of run_scenario *)

\* the step's critical flag as the definition states it
FlagCritical(step) == "critical" \notin DOMAIN step \/ step.critical = TRUE
FlagNonCritical(step) == "critical" \in DOMAIN step /\ step.critical = FALSE

\* run_scenario has built its results dict
InRun == "steps" \in DOMAIN results

\* step n is recorded as failed
RecordedFailed(n) == n <= Len(results.steps) /\ ~results.steps[n].success

\* C1: a failed step whose critical flag is true or absent is the last
\* StepResult: no later step is recorded, no command of a later step is ever
\* executed, and the step loop is left for good.
C1_CriticalFailureEndsSteps ==
    InRun =>
        \A n \in 1..Len(results.steps) :
            (RecordedFailed(n) /\ FlagCritical(Steps[n])) =>
                /\ n = Len(results.steps)
                /\ \A e \in 1..Len(cmd_log) : cmd_log[e].step <= n
                /\ pc \notin {"for_step", "for_cmd", "append_step"}

\* run_scenario returned after a step without a critical key failed, with
\* steps of the definition left over
C1_Witness ==
    /\ pc = "save_results"
    /\ Len(results.steps) < Len(Steps)
    /\ RecordedFailed(Len(results.steps))
    /\ "critical" \notin DOMAIN Steps[Len(results.steps)]

\* C2: when run_scenario returns, every step after a failed step whose
\* critical flag is false was executed and recorded, unless a critical step
\* in between failed.
C2_NonCriticalFailureContinues ==
    pc = "save_results" =>
        \A n \in 1..Len(results.steps) :
            (RecordedFailed(n) /\ FlagNonCritical(Steps[n])) =>
                \A m \in (n + 1)..Len(Steps) :
                    \/ /\ m <= Len(results.steps)
                       /\ \E e \in 1..Len(cmd_log) : cmd_log[e].step = m
                    \/ \E j \in (n + 1)..(m - 1) :
                           RecordedFailed(j) /\ FlagCritical(Steps[j])

\* a non-critical first step failed and the second step was run and recorded
C2_Witness ==
    /\ pc = "save_results"
    /\ Len(Steps) >= 2
    /\ RecordedFailed(1)
    /\ FlagNonCritical(Steps[1])
    /\ Len(results.steps) = Len(Steps)
    /\ \E e \in 1..Len(cmd_log) : cmd_log[e].step = 2

\* C3: a step's commands are executed in list order, and the first one that
\* fails is the last one executed in its step and makes the step's success
\* flag false.
C3_FailedCommandStopsStep ==
    InRun =>
        \A e \in 1..Len(cmd_log) :
            LET ent == cmd_log[e] IN
            /\ ent.cmd = 1 + Cardinality({f \in 1..(e - 1) : cmd_log[f].step = ent.step})
            /\ \A f \in 1..(e - 1) : cmd_log[f].step <= ent.step
            /\ ~ent.ok =>
                /\ \A f \in (e + 1)..Len(cmd_log) : cmd_log[f].step # ent.step
                /\ IF ent.step <= Len(results.steps)
                     THEN ~results.steps[ent.step].success
                     ELSE ent.step = i /\ ~step_success /\ pc = "append_step"

\* the first of two commands of a step failed, and run_scenario returned
C3_Witness ==
    /\ pc = "save_results"
    /\ \E e \in 1..Len(cmd_log) :
         /\ ~cmd_log[e].ok
         /\ cmd_log[e].cmd = 1
         /\ Len(StepCommands(Steps[cmd_log[e].step])) = 2

\* C4: when run_scenario returns, the overall success flag is true exactly
\* when every StepResult and every CriterionResult has success true.
C4_OverallIsConjunction ==
    pc = "save_results" =>
        (results.success <=>
            /\ \A n \in 1..Len(results.steps) : results.steps[n].success
            /\ \A j \in 1..Len(results.criteria) : results.criteria[j].success)

\* a failed non-critical step followed by a step that succeeded
C4_Witness ==
    /\ pc = "save_results"
    /\ ~results.success
    /\ Len(results.steps) = 2
    /\ ~results.steps[1].success
    /\ results.steps[2].success

\* run_scenario returned on the end-to-end scenario with its wait step failed
EndToEndWaitFailed ==
    /\ pc = "save_results"
    /\ Steps = FixtureEndToEnd.steps
    /\ Criteria = FixtureEndToEnd.success_criteria
    /\ RecordedFailed(2)

\* the verify step of the end-to-end scenario was executed and its output captured
VerifyCaptured ==
    /\ Len(results.steps) = 3
    /\ results.steps[3].name = <<"verify">>
    /\ \E e \in 1..Len(cmd_log) : cmd_log[e].step = 3
    /\ Len(results.steps[3].output) = 1

\* C5 as stated: with the non-critical wait step failed, verify still runs
\* and its output is captured, and the overall success flag is decided by the
\* verify step and the criteria alone.
C5_OverallFromVerifyAndCriteria ==
    EndToEndWaitFailed =>
        /\ VerifyCaptured
        /\ results.success <=>
               /\ results.steps[3].success
               /\ \A j \in 1..Len(results.criteria) : results.criteria[j].success

\* C5, amended: with the non-critical wait step failed, verify still runs and
\* its output is captured, and the overall success flag is false whatever the
\* verify step and the criteria yield.
C5_VerifyRunsOverallFalse ==
    EndToEndWaitFailed => (VerifyCaptured /\ ~results.success)

\* wait failed, verify succeeded and its output was recorded
C5_Witness ==
    /\ EndToEndWaitFailed
    /\ results.steps[1].success
    /\ results.steps[3].success
    /\ results.steps[3].output = <<Stdout(3, 1)>>

\* C6 as stated: every recorded CriterionResult has success true exactly when
\* its observed value is greater than or equal to its threshold.
C6_SuccessIffAtLeastThreshold ==
    (InRun /\ "criteria" \in DOMAIN results) =>
        \A j \in 1..Len(results.criteria) :
            results.criteria[j].success <=>
                results.criteria[j].actual >= results.criteria[j].threshold

\* C7: when run_scenario returns, the criteria list holds one CriterionResult
\* per success criterion of the definition, in definition order, also after a
\* critical step failure ended the step loop.
C7_OneResultPerCriterion ==
    pc = "save_results" =>
        /\ Len(results.criteria) = Len(Criteria)
        /\ \A j \in 1..Len(Criteria) :
             /\ results.criteria[j].name = Criteria[j].name
             /\ results.criteria[j].threshold = Criteria[j].threshold

\* the step loop was left early by a failed critical step, and two criteria
\* with different thresholds were recorded
C7_Witness ==
    /\ pc = "save_results"
    /\ Len(results.steps) < Len(Steps)
    /\ Len(Criteria) = 2
    /\ Criteria[1].threshold # Criteria[2].threshold
    /\ Len(results.criteria) = 2

-----------------------------------------------------------------------------
(* Properties of the driver *)

\* C8 as stated: when the process ends, every namespace that a scenario
\* created has been the target of a delete call issued by that scenario or a
\* later one.
C8_CreatedNamespacesDeleted ==
    pc = "exit" =>
        \A cr \in created :
            \E d \in delete_calls : d[2] = cr[2] /\ d[1] >= cr[1]

\* C9: setups are attempted in list order and, when the process ends, for
\* every file of the list; every caught exception belongs to a scenario whose
\* setup was attempted, clears the success flag and ends in exit code 1.
C9_ExceptionsNeverStopRun ==
    /\ Len(attempted) <= Len(scenario_files)
    /\ attempted = SubSeq(scenario_files, 1, Len(attempted))
    /\ (pc = "exit" /\ scenario_files # <<>>) => attempted = scenario_files
    /\ \A e \in 1..Len(caught) : \E a \in 1..Len(attempted) : attempted[a] = caught[e]
    /\ caught # <<>> => ~success
    /\ (pc = "exit" /\ caught # <<>>) => exit_code = 1

\* the first of two scenarios raised, and the second was set up and run to
\* its end
C9_Witness ==
    /\ pc = "exit"
    /\ Len(scenario_files) = 2
    /\ caught = <<1>>
    /\ attempted = <<1, 2>>
    /\ 2 \in DOMAIN returned

\* every result run_scenario returned in this run has success true
AllResultsSucceeded == \A f \in DOMAIN returned : returned[f]

\* C10 as stated: with a non-empty scenario list, the exit code is 0 exactly
\* when every executed scenario's result has success true.
C10_ExitZeroIffResultsSucceed ==
    (pc = "exit" /\ scenario_files # <<>>) =>
        /\ exit_code \in {0, 1}
        /\ exit_code = 0 <=> AllResultsSucceeded

\* C10, amended: with a non-empty scenario list, the exit code is 0 exactly
\* when no scenario raised an exception and every executed scenario's result
\* has success true.
C10_ExitZeroIffNoFailure ==
    (pc = "exit" /\ scenario_files # <<>>) =>
        /\ exit_code \in {0, 1}
        /\ exit_code = 0 <=> (caught = <<>> /\ AllResultsSucceeded)

\* every scenario ran and returned success, one of them raised afterwards,
\* and the exit code is 1
C10_Witness ==
    /\ pc = "exit"
    /\ scenario_files # <<>>
    /\ DOMAIN returned = 1..Len(scenario_files)
    /\ AllResultsSucceeded
    /\ caught # <<>>
    /\ exit_code = 1

\* C11: with an empty scenario list the driver only exits, with code 1: no
\* exception, no setup, no namespace, no step command and no saved result.
C11_EmptyListExitsOne ==
    scenario_files = <<>> =>
        /\ pc \in {"start", "exit"}
        /\ pc = "exit" => exit_code = 1
        /\ attempted = <<>>
        /\ caught = <<>>
        /\ created = {}
        /\ cluster = {}
        /\ ran = {}
        /\ DOMAIN reports = {}

\* the process has ended on an empty list
C11_Witness ==
    /\ scenario_files = <<>>
    /\ pc = "exit"
    /\ exit_code = 1

\* the processing of scenario file f has ended: its exception was caught, or
\* its cleanup returned
Ended(f) ==
    \/ f \in DOMAIN raised_at
    \/ /\ \E d \in delete_calls : d[1] = f
       /\ f # idx \/ pc \in {"loop", "exit"}

\* the scenario files whose setup has started and whose processing has not ended
InProgress == {f \in 1..Len(scenario_files) :
                  (\E a \in 1..Len(attempted) : attempted[a] = f) /\ ~Ended(f)}

\* C12: at most one scenario is between the start of its setup and the end of
\* its processing, and it is the one the loop is at; every scenario before it
\* has ended.
C12_OneScenarioAtATime ==
    /\ Cardinality(InProgress) <= 1
    /\ InProgress \subseteq {idx}
    /\ \A f \in 1..(idx - 1) : Ended(f)

\* the second scenario executes a command after the first one's cleanup returned
C12_Witness ==
    /\ idx = 2
    /\ pc = "append_step"
    /\ cmd_log # <<>>
    /\ 1 \notin DOMAIN raised_at
    /\ \E d \in delete_calls : d[1] = 1

\* C13: a step command is executed only when the scenario's namespace was
\* created by this scenario and exists, every manifest was applied, and no
\* delete call was issued for it.
C13_CommandsInsideNamespaceLifetime ==
    [][(cmd_log' # cmd_log /\ cmd_log' # <<>>) =>
          /\ <<idx, namespace>> \in created
          /\ namespace \in cluster
          /\ manifest_files = <<>>
          /\ \A e \in 1..Len(apply_log) : apply_log[e].ok /\ apply_log[e].file = idx
          /\ \A d \in delete_calls : d # <<idx, namespace>>]_vars

\* a command was executed after two manifests were applied
C13_Witness ==
    /\ pc = "append_step"
    /\ cmd_log # <<>>
    /\ Len(apply_log) = 2
    /\ namespace \in cluster

\* C14: the manifests are applied one by one in listing order and only after
\* the scenario's create call succeeded; a failed apply is the last one, it
\* reaches the caller, and a failed create or apply is followed by no apply
\* and no delete call of that scenario.
C14_SetupOrder ==
    /\ \A e \in 1..Len(apply_log) :
         /\ apply_log[e].manifest = e
         /\ \E cr \in created : cr[1] = apply_log[e].file
         /\ ~apply_log[e].ok =>
              /\ e = Len(apply_log)
              /\ apply_log[e].file \in DOMAIN raised_at
              /\ raised_at[apply_log[e].file] = "apply_manifests"
    /\ \A f \in DOMAIN raised_at :
         raised_at[f] \in {"create_namespace", "apply_manifests"} =>
             /\ \A d \in delete_calls : d[1] # f
             /\ raised_at[f] = "create_namespace" =>
                  /\ \A cr \in created : cr[1] # f
                  /\ \A e \in 1..Len(apply_log) : apply_log[e].file # f

\* the first of two manifests failed: the second one is still to apply, and
\* the driver is back in its loop
C14_Witness ==
    /\ pc = "loop"
    /\ Len(apply_log) = 1
    /\ ~apply_log[1].ok
    /\ Len(manifest_files) = 2
    /\ idx \in DOMAIN raised_at

\* the scenario files whose setup failed: the create call or an apply call raised
SetupFailed == {f \in DOMAIN raised_at :
                   raised_at[f] \in {"create_namespace", "apply_manifests"}}

\* C15: a scenario whose setup failed executes no step command and makes the
\* run fail, the exit code is 1, and by the end of the run a delete call was
\* issued for the namespace it had created.
C15_SetupFailureFailsAndCleansUp ==
    \A f \in SetupFailed :
        /\ f \notin ran
        /\ ~success
        /\ pc = "exit" =>
             /\ exit_code = 1
             /\ \A cr \in created : cr[1] = f => \E d \in delete_calls : d[1] = f

\* C16: a namespace created by a scenario that raised before its cleanup call
\* is still in the cluster, and neither that scenario nor a later one has
\* issued a delete call for it.
C16_RaiseBeforeCleanupLeaksNamespace ==
    \A cr \in created :
        (cr[1] \in DOMAIN raised_at /\ raised_at[cr[1]] # "cleanup_scenario") =>
            /\ cr[2] \in cluster
            /\ \A d \in delete_calls : ~(d[2] = cr[2] /\ d[1] >= cr[1])

\* the run has ended, the first scenario's apply failed after its namespace
\* was created, and a second scenario ran to its return afterwards
C16_Witness ==
    /\ pc = "exit"
    /\ Len(scenario_files) = 2
    /\ 1 \in DOMAIN raised_at
    /\ raised_at[1] = "apply_manifests"
    /\ \E cr \in created : cr[1] = 1 /\ cr[2] \in cluster
    /\ 2 \in DOMAIN returned

\* some step of the definition has a resource-apply command
HasApplyStep(doc) ==
    \E s \in 1..Len(Get(doc, "steps", <<>>)) :
        \E n \in 1..Len(Get(doc.steps[s], "commands", <<>>)) :
            doc.steps[s].commands[n] = "kubectl apply"

\* C17: the namespace-create call is reached or made only for a definition
\* that has a step with a resource-apply command.
C17_NoApplyStepNoNamespace ==
    (pc = "create_namespace" \/ \E cr \in created : cr[1] = idx) =>
        HasApplyStep(scenario)

\* find_scenarios has returned
Resolved == pc # "find_scenarios"

\* C18: with a scenario id, the result is the enabled definition when there
\* is one; otherwise it is empty, with the pending warning when the scenario
\* is in pending and the not-found error when it is nowhere; a scenario that
\* is only in pending is never set up.
C18_ScenarioIdResolution ==
    (Resolved /\ args.scenario # <<>>) =>
        /\ args.scenario \in fs.enabled =>
             /\ scenario_files = <<DefinitionPath("enabled", args.scenario)>>
             /\ printed = <<>>
        /\ (args.scenario \notin fs.enabled /\ args.scenario \in fs.pending) =>
             /\ scenario_files = <<>>
             /\ printed = << <<"WARNING: in pending status", args.scenario>> >>
             /\ attempted = <<>>
             /\ pc \in {"start", "exit"}
        /\ (args.scenario \notin fs.enabled /\ args.scenario \notin fs.pending) =>
             /\ scenario_files = <<>>
             /\ printed = << <<"ERROR: not found", args.scenario>> >>

\* the driver has ended on a scenario that is only in pending
C18_Witness ==
    /\ pc = "exit"
    /\ args.scenario \in fs.pending \ fs.enabled
    /\ scenario_files = <<>>
    /\ printed # <<>>

\* the positions of the group table's entry whose identifier is enabled on disk
Present(ids, disk) == {n \in 1..Len(ids) : ids[n] \in disk.enabled}

\* C19: for a group of the table (and no scenario id) the result lists the
\* enabled definitions of exactly the group's present identifiers, in table
\* order, and the printed lines are one warning per missing identifier, in
\* table order.
C19_TableGroupResolution ==
    (Resolved /\ args.scenario = <<>> /\ args.group \in DOMAIN SCENARIO_GROUPS) =>
        LET ids == SCENARIO_GROUPS[args.group]
            present == Present(ids, fs)
            missing == (1..Len(ids)) \ present
        IN  /\ Len(scenario_files) = Cardinality(present)
            /\ \A p \in 1..Len(scenario_files) :
                 \E n \in present :
                    /\ scenario_files[p] = DefinitionPath("enabled", ids[n])
                    /\ Cardinality({m \in present : m < n}) = p - 1
            /\ Len(printed) = Cardinality(missing)
            /\ \A p \in 1..Len(printed) :
                 \E n \in missing :
                    /\ printed[p] = <<"WARNING: not found or not enabled", ids[n]>>
                    /\ Cardinality({m \in missing : m < n}) = p - 1

\* the first identifier of slo-core is missing, the second one is enabled
\* and is returned
C19_Witness ==
    /\ Resolved
    /\ args.scenario = <<>>
    /\ args.group = <<"slo-core">>
    /\ SCENARIO_GROUPS[args.group][1] \notin fs.enabled
    /\ scenario_files = <<DefinitionPath("enabled", SCENARIO_GROUPS[args.group][2])>>
    /\ Len(printed) = 2

\* p is a prefix of s
IsPrefix(p, s) == Len(p) <= Len(s) /\ SubSeq(s, 1, Len(p)) = p

\* C20: for a group that is not in the table (and no scenario id) the result
\* lists, once each, the enabled definitions of the directories whose name
\* starts with the group name, and nothing is printed.
C20_UnknownGroupIsPrefixSearch ==
    (Resolved /\ args.scenario = <<>> /\ args.group \notin DOMAIN SCENARIO_GROUPS) =>
        LET matching == {d \in fs.enabled : IsPrefix(args.group, d)}
        IN  /\ {scenario_files[p] : p \in 1..Len(scenario_files)}
                 = {DefinitionPath("enabled", d) : d \in matching}
            /\ Len(scenario_files) = Cardinality(matching)
            /\ printed = <<>>

\* a proper prefix matched three directories and left an enabled one out
C20_Witness ==
    /\ Resolved
    /\ args.scenario = <<>>
    /\ args.group = <<"TF-SLO-", "ALR">>
    /\ Len(scenario_files) = 3
    /\ \E d \in fs.enabled : ~IsPrefix(args.group, d)

\* every group name a call can be given: the groups of the table and the
\* explored names that are not in it
AnyGroup == DOMAIN SCENARIO_GROUPS \cup GroupArgs

\* C31: with a scenario id, the list find_scenarios returned (and the lines
\* it printed) is the one and only result of the same call under every other
\* group name, whether the group lists the scenario, does not list it, or is
\* not in the table.
C31_GroupIgnoredWithScenarioId ==
    (Resolved /\ args.scenario # <<>>) =>
        \A g \in AnyGroup :
            find_scenarios(g, args.scenario, fs)
                = {[scenarios |-> scenario_files, printed |-> printed]}

\* an enabled scenario of slo-alert was asked for under the group slo-core,
\* which does not list it, and was returned
C31_Witness ==
    /\ Resolved
    /\ args.group = <<"slo-core">>
    /\ args.scenario = SCENARIO_GROUPS[<<"slo-alert">>][1]
    /\ scenario_files = <<DefinitionPath("enabled", args.scenario)>>

\* this step is a save_results call that wrote its file
SaveWrote ==
    /\ Len(save_log') = Len(save_log) + 1
    /\ save_log'[Len(save_log')].ok

\* C21 as stated: every save that writes does so to a path that no earlier
\* save of the run wrote to.
C21_NoSaveOverwrites ==
    [][SaveWrote => DOMAIN reports' # DOMAIN reports]_vars

\* C21: a save that writes to the path of an existing result file replaces
\* a record of the same scenario identifier written in the same second, and
\* leaves every other file as it was; a record of a different scenario
\* identifier is never replaced.
C21_OverwriteOnlySameIdSameSecond ==
    [][SaveWrote =>
          /\ \A p \in DOMAIN reports :
                /\ p \in DOMAIN reports'
                /\ reports'[p] # reports[p] =>
                     /\ reports[p].scenario_id = results.scenario_id
                     /\ now' = now
          /\ DOMAIN reports' = DOMAIN reports =>
                \E p \in DOMAIN reports :
                    /\ reports'[p] = results
                    /\ reports[p].scenario_id = results.scenario_id
                    /\ now' = now]_vars

\* two results of different scenario identifiers were saved in the same
\* second, and both files are there
C21_Witness ==
    /\ Len(save_log) = 2
    /\ \E p, q \in DOMAIN reports :
          /\ p # q
          /\ reports[p].scenario_id # reports[q].scenario_id
          /\ p[Len(p) - 1] = q[Len(q) - 1]

\* the commands executed for step n, in the order of their execution
Executed(n) == SelectSeq(cmd_log, LAMBDA e : e.step = n)

\* C22: the output of every recorded step has one chunk per executed command
\* of that step, in execution order: the standard output of a command that
\* succeeded, the error text of the one that failed; a failed step's last
\* chunk is the error text and every earlier chunk is a standard output.
C22_OneChunkPerExecutedCommand ==
    InRun =>
        \A n \in 1..Len(results.steps) :
            LET out == results.steps[n].output
                run == Executed(n)
            IN  /\ Len(out) = Len(run)
                /\ \A j \in 1..Len(run) :
                     /\ run[j].cmd = j
                     /\ out[j] = IF run[j].ok THEN <<"out", n, j>> ELSE <<"ERROR: ", n, j>>
                /\ ~results.steps[n].success =>
                     /\ out # <<>>
                     /\ out[Len(out)][1] = "ERROR: "
                     /\ \A j \in 1..(Len(out) - 1) : out[j][1] = "out"
                /\ results.steps[n].success =>
                     \A j \in 1..Len(out) : out[j][1] = "out"

\* a step was recorded whose second command failed after its first succeeded
C22_Witness ==
    /\ InRun
    /\ \E n \in 1..Len(results.steps) :
          /\ ~results.steps[n].success
          /\ Len(results.steps[n].output) = 2
          /\ Len(Executed(n)) = 2

\* the step loop of the current run has ended: every step is recorded, or
\* the last recorded step is a failed critical one
StepsEnded ==
    /\ InRun
    /\ \/ Len(results.steps) = Len(Get(scenario, "steps", <<>>))
       \/ /\ results.steps # <<>>
          /\ ~results.steps[Len(results.steps)].success
          /\ FlagCritical(scenario.steps[Len(results.steps)])

\* the criteria evaluation of the current run has started
CriteriaStarted == InRun /\ "criteria" \in DOMAIN results

\* C23: every effect of a phase happens after the phases before it: the
\* namespace is created after the definition was loaded, a step command runs
\* after setup and before the criteria, the criteria start after the step loop
\* ended, the save follows the return of run_scenario with every criterion
\* evaluated, and the delete call follows the save of this scenario's result.
C23_PhaseOrder ==
    [][/\ created' # created =>
             /\ attempted # <<>>
             /\ attempted[Len(attempted)] = idx
             /\ scenario # Unbound
             /\ apply_log = <<>>
             /\ idx \notin DOMAIN returned
       /\ apply_log' # apply_log /\ apply_log' # <<>> =>
             /\ <<idx, namespace>> \in created
             /\ idx \notin ran
       /\ cmd_log' # cmd_log /\ cmd_log' # <<>> =>
             /\ <<idx, namespace>> \in created
             /\ manifest_files = <<>>
             /\ ~CriteriaStarted
             /\ idx \notin DOMAIN returned
       /\ (~CriteriaStarted /\ CriteriaStarted') =>
             /\ StepsEnded
             /\ cmd_log' = cmd_log
       /\ save_log' # save_log =>
             /\ idx \in DOMAIN returned
             /\ StepsEnded
             /\ CriteriaStarted
             /\ Len(results.criteria) = Len(Get(scenario, "success_criteria", <<>>))
             /\ \A d \in delete_calls : d[1] # idx
       /\ delete_calls' # delete_calls =>
             \E e \in 1..Len(save_log) : save_log[e].file = idx /\ save_log[e].ok]_vars

\* a scenario went through every phase: manifests applied, commands run, a
\* criterion evaluated, the result saved and the delete call issued
C23_Witness ==
    /\ pc = "loop"
    /\ idx = 1
    /\ apply_log # <<>>
    /\ cmd_log # <<>>
    /\ CriteriaStarted
    /\ Len(results.criteria) = 1
    /\ save_log = <<[file |-> 1, ok |-> TRUE]>>
    /\ delete_calls = {<<1, namespace>>}
    /\ 1 \notin DOMAIN raised_at

\* one character of an identifier, lower-cased, an underscore made a hyphen
LowerHyphen(ch) ==
    CASE ch = "_" -> "-"
      [] ch = "T" -> "t"
      [] ch = "A" -> "a"
      [] ch = "B" -> "b"
      [] OTHER -> ch

\* the namespace names setup_scenario has used for scenario file f: the one
\* it created, and the current one when f is the file being processed
NamesUsed(f) ==
    {cr[2] : cr \in {x \in created : x[1] = f}}
    \cup (IF f = idx /\ pc # "setup_scenario" THEN {namespace} ELSE {})

\* C24: the namespace of a scenario is "tf-k8s-" followed by its identifier,
\* lower-cased and with every underscore made a hyphen, so two scenario files
\* with the same identifier get the same name.
C24_NamespaceFromIdentifier ==
    /\ \A f \in DOMAIN loaded :
          \A name \in NamesUsed(f) :
              /\ Len(name) = Len(loaded[f]) + 1
              /\ name[1] = "tf-k8s-"
              /\ \A j \in 1..Len(loaded[f]) : name[j + 1] = LowerHyphen(loaded[f][j])
    /\ \A f, g \in DOMAIN loaded :
          loaded[f] = loaded[g] =>
              \A m \in NamesUsed(f), n \in NamesUsed(g) : m = n

\* two scenario files with the same identifier, which has an upper-case
\* letter and an underscore, both created their namespace
C24_Witness ==
    /\ 1 \in DOMAIN loaded
    /\ 2 \in DOMAIN loaded
    /\ loaded[1] = <<"T", "_", "A">>
    /\ loaded[2] = loaded[1]
    /\ \E cr \in created : cr[1] = 1
    /\ \E cr \in created : cr[1] = 2

\* C30: scenario files with different identifiers get different namespace
\* names, and a create call meets an existing namespace only when a scenario
\* file with the same identifier created it.
C30_NamingInjective ==
    /\ \A f, g \in DOMAIN loaded :
          loaded[f] # loaded[g] =>
              \A m \in NamesUsed(f), n \in NamesUsed(g) : m # n
    /\ (pc = "create_namespace" /\ namespace \in cluster) =>
          \E g \in 1..(idx - 1) :
              /\ g \in DOMAIN loaded
              /\ loaded[g] = loaded[idx]
              /\ <<g, namespace>> \in created

\* a critical step is recorded as failed: the scenario is aborted
Aborted ==
    /\ InRun
    /\ \E n \in 1..Len(results.steps) :
          ~results.steps[n].success /\ FlagCritical(scenario.steps[n])

\* the step list matches a prefix of the definition's steps, and the executed
\* commands are those of the recorded steps and of at most one running step,
\* each once and in order
StepsArePrefix ==
    InRun =>
        /\ Len(results.steps) <= Len(Get(scenario, "steps", <<>>))
        /\ \A n \in 1..Len(results.steps) :
              results.steps[n].name =
                  (IF "name" \in DOMAIN scenario.steps[n]
                     THEN scenario.steps[n].name
                     ELSE <<"Step", n>>)
        /\ \A e \in 1..Len(cmd_log) :
              /\ cmd_log[e].step <= Len(results.steps) + 1
              /\ cmd_log[e].step = Len(results.steps) + 1 => ~Aborted
              /\ \A d \in 1..(e - 1) :
                    \/ cmd_log[d].step < cmd_log[e].step
                    \/ cmd_log[d].step = cmd_log[e].step /\ cmd_log[d].cmd < cmd_log[e].cmd

\* C25: in every step of run_scenario the step list stays a prefix of the
\* definition's steps, every command of a step runs at most once and only
\* after every earlier step was recorded, a recorded step result is never
\* changed or removed, and after a critical step failed no command runs and
\* no step is recorded.
C25_LinearStepMachine ==
    [][(InRun /\ InRun') =>
          /\ StepsArePrefix'
          /\ Len(results'.steps) >= Len(results.steps)
          /\ \A n \in 1..Len(results.steps) : results'.steps[n] = results.steps[n]
          /\ cmd_log' # cmd_log => Len(results.steps) = cmd_log'[Len(cmd_log')].step - 1
          /\ Aborted => (cmd_log' = cmd_log /\ results'.steps = results.steps)]_vars

\* two steps are recorded, the first one a failed non-critical step
C25_Witness ==
    /\ InRun
    /\ Len(results.steps) = 2
    /\ ~results.steps[1].success
    /\ \E e \in 1..Len(cmd_log) : cmd_log[e].step = 2

\* some command of some step has the text as a substring
SomeCommandHas(steps, text) ==
    \E n \in 1..Len(steps) :
        /\ "commands" \in DOMAIN steps[n]
        /\ \E j \in 1..Len(steps[n].commands) :
              \E t \in 1..Len(steps[n].commands[j]) : steps[n].commands[j][t] = text

\* e is one of the errors reported
Reported(e) == \E j \in 1..Len(errors) : errors[j] = e

\* the validator ended on an error it did not expect
UnexpectedError == Reported(<<"Unexpected error validating scenario definition">>)

\* C26: when validate_scenario_definition has returned on a definition with
\* a step list: fewer than three steps are reported as insufficient; a list
\* without a resource-apply command, or without a verification command, is
\* reported as such or ends the validation on an unexpected error; in each of
\* these cases the validation fails; and a list with three steps, an apply
\* command and a verification command gets none of the three errors.
C26_ValidatorStepRules ==
    (pc = "v_returned" /\ scenario # Unbound /\ "steps" \in DOMAIN scenario) =>
        LET steps == scenario.steps
            few == Len(steps) < 3
            noApply == ~SomeCommandHas(steps, "kubectl apply")
            noVerify == ~SomeCommandHas(steps, "verify")
        IN  /\ few <=> Reported(<<"Insufficient steps in scenario", Len(steps)>>)
            /\ noApply => Reported(<<"No deployment step found">>) \/ UnexpectedError
            /\ noVerify => Reported(<<"No verification step found">>) \/ UnexpectedError
            /\ (few \/ noApply \/ noVerify) => (errors # <<>> /\ valid = FALSE)
            /\ ~noApply => ~Reported(<<"No deployment step found">>)
            /\ ~noVerify => ~Reported(<<"No verification step found">>)

\* a definition with three steps, one of them with an apply command and none
\* with a verification command, failed the validation on that error alone
C26_Witness ==
    /\ pc = "v_returned"
    /\ scenario # Unbound
    /\ "steps" \in DOMAIN scenario
    /\ Len(scenario.steps) = 3
    /\ SomeCommandHas(scenario.steps, "kubectl apply")
    /\ errors = << <<"No verification step found">> >>
    /\ valid = FALSE

\* C27: a scenario whose save_results call raised had returned from
\* run_scenario, gets no delete call, makes the run fail, and the loop still
\* takes every remaining scenario file.
C27_SaveFailureSkipsCleanup ==
    \A f \in DOMAIN raised_at :
        raised_at[f] = "save_results" =>
            /\ f \in DOMAIN returned
            /\ \A d \in delete_calls : d[1] # f
            /\ \E cr \in created : cr[1] = f /\ cr[2] \in cluster
            /\ ~success
            /\ pc = "exit" =>
                 /\ exit_code = 1
                 /\ attempted = [a \in 1..Len(scenario_files) |-> a]

\* the save of the first scenario raised and the second scenario was run to
\* its end
C27_Witness ==
    /\ pc = "exit"
    /\ Len(scenario_files) = 2
    /\ 1 \in DOMAIN raised_at
    /\ raised_at[1] = "save_results"
    /\ returned[1]
    /\ \E d \in delete_calls : d[1] = 2

\* C28: the delete call leaves the saved results as they are, a delete that
\* left the namespace in the cluster clears the run's success flag, and a run
\* whose success flag is cleared exits with code 1.
C28_CleanupFailureFailsRun ==
    [][/\ delete_calls' # delete_calls =>
             /\ reports' = reports
             /\ namespace \in cluster' => ~success'
       /\ (exit_code' # exit_code /\ ~success) => exit_code' = 1]_vars

\* the only scenario ran with success and its result was saved, its delete
\* call failed, and the run exited with code 1
C28_Witness ==
    /\ pc = "exit"
    /\ exit_code = 1
    /\ Len(scenario_files) = 1
    /\ 1 \in DOMAIN raised_at
    /\ raised_at[1] = "cleanup_scenario"
    /\ returned[1]
    /\ \E p \in DOMAIN reports : reports[p].success

\* the number of save_results calls made for scenario file f
SaveCalls(f) == Len(SelectSeq(save_log, LAMBDA e : e.file = f))

\* setup_scenario returned for scenario file f
SetupReturned(f) ==
    /\ \E cr \in created : cr[1] = f
    /\ f \in DOMAIN raised_at =>
          raised_at[f] \notin {"setup_scenario", "create_namespace", "apply_manifests"}
    /\ f = idx => pc \notin {"setup_scenario", "create_namespace", "apply_manifests"}

\* C29 as stated: a scenario whose processing has ended got one save call
\* when its setup returned, and none otherwise.
C29_SavedIffSetupReturned ==
    \A f \in 1..Len(scenario_files) :
        /\ SaveCalls(f) <= 1
        /\ Ended(f) => (SaveCalls(f) = 1 <=> SetupReturned(f))

\* C29: no scenario gets more than one save call; a scenario whose
\* processing has ended got one exactly when run_scenario returned for it,
\* whatever the result; run_scenario returns only after the setup returned.
C29_SavedIffRunReturned ==
    \A f \in 1..Len(scenario_files) :
        /\ SaveCalls(f) <= 1
        /\ SaveCalls(f) = 1 => f \in DOMAIN returned
        /\ f \in DOMAIN returned => SetupReturned(f)
        /\ Ended(f) => (SaveCalls(f) = 1 <=> f \in DOMAIN returned)
        /\ (Ended(f) /\ ~SetupReturned(f)) => SaveCalls(f) = 0

\* the scenario was aborted at its first step, a critical one, and its
\* result was saved all the same
C29_Witness ==
    /\ pc = "loop"
    /\ idx = 1
    /\ InRun
    /\ Len(results.steps) = 1
    /\ Len(Get(scenario, "steps", <<>>)) = 3
    /\ returned[1] = FALSE
    /\ save_log = <<[file |-> 1, ok |-> TRUE]>>

\* the checks of validate, in the order of its list
CheckOrder ==
    <<"check_directory_structure", "validate_scenario_definition",
      "check_verification_script", "check_k8s_resources", "check_syntax">>

\* C32: validate runs the five checks in the order of its list, all of them
\* even after one returned false; when the last one has ended it returns true
\* exactly if the error list is empty, whatever the warnings; and no step
\* removes or changes an entry of the error list.
C32_ValidateRunsAllChecks ==
    [][/\ IsPrefix(errors, errors')
       /\ Len(checked') <= Len(CheckOrder)
       /\ \A n \in 1..Len(checked') : checked'[n].check = CheckOrder[n]
       /\ pc' = "validated" =>
            /\ Len(checked') = Len(CheckOrder)
            /\ all_passed' = (errors' = <<>>)]_vars

\* the directory check failed, the four other checks ran all the same, a
\* later check added an error and a warning, and validate returned false
C32_Witness ==
    /\ pc = "validated"
    /\ Len(checked) = 5
    /\ ~checked[1].returned
    /\ Len(errors) >= 2
    /\ warnings # <<>>
    /\ ~all_passed

====
